---- MODULE Spec2Model ----
(***************************************************************************)
(* Model of the rtsc policy deque (src/src/pdeque.rs) together with the    *)
(* delivery-policy capability it consumes (src/src/ddp.rs) and the result  *)
(* mapping of the sync channel senders (src/src/base_channel.rs).          *)
(*                                                                         *)
(* The deque keeps its elements in a std VecDeque: a ring buffer of        *)
(* `capacity` slots, described here by the logical sequence `data` and the *)
(* physical index `head` of its first element.  The physical layout is     *)
(* part of the state because sort_by_priority rotates the ring by the      *)
(* length of its wrapped-around slice before sorting.  The ring has        *)
(* exactly `capacity` slots (VecDeque::with_capacity) and never grows,     *)
(* because push_back is reached only with len < capacity.                  *)
(***************************************************************************)
EXTENDS Integers, Sequences, FiniteSets, TLC

\* ------------------------------------------------------------------ bounds
\* largest deque capacity explored (Deque::bounded(capacity))
MaxCap == 2
\* number of values admitted in one run (ids are admission numbers)
MaxPush == 3
\* number of send and receive calls made on a channel in one run
MaxOps == 4

\* ------------------------------------------------- policy metadata (ddp.rs)
DeliveryPolicy == {"Always", "Latest", "Optional", "Single", "SingleOptional"}

Kinds == {"a", "b"}

Priorities == {1, 2}

\* a value offered to try_push: the four capability answers of the value
Values == [dp : DeliveryPolicy, kind : Kinds, prio : Priorities, exp : BOOLEAN]

is_delivery_policy_single(v) == v.dp = "Single" \/ v.dp = "SingleOptional"

is_delivery_policy_optional(v) == v.dp = "Optional" \/ v.dp = "SingleOptional"

eq_kind(a, b) == a.kind = b.kind

is_expired(v) == v.exp

priority(v) == v.prio

\* the value as stored: its payload identity is its admission number
Stored(v, id) == [id |-> id, dp |-> v.dp, kind |-> v.kind, prio |-> v.prio, exp |-> v.exp]

\* what the caller of get sees of the returned value
Seen(e) == [prio |-> e.prio, exp |-> e.exp]

NoVal == [prio |-> 0, exp |-> FALSE]

\* data, head     the VecDeque of the Deque: contents, index of the front slot
\* capacity       Deque::capacity
\* ordered        Deque::ordered
\* nextId         the admission number the next stored value gets
\* last           the last call and what its caller saw: the operation, its
\*                result, whether the value was stored, how many queued
\*                elements the call removed, the value get returned
VARIABLES data, head, capacity, ordered, nextId, last

\* the channel (base_channel.rs InnerData and ChannelInner): the FIFO queue,
\* the handle counts, the wait queues of the two condition variables, the
\* threads using the channel, the number of the next call, the call that
\* returned last, and the values sent with success and received so far
VARIABLES queue, senders, receivers, data_available, space_available,
          thr, op_no, done, sent, rcvd

\* the async channel (base_channel_async.rs InnerData) has in addition the
\* queues of waiting operations, their id sets and the sets of woken ids,
\* and the Send and Recv futures created on it
VARIABLES send_fut_wakers, send_fut_waker_ids, send_fut_pending,
          recv_fut_wakers, recv_fut_waker_ids, recv_fut_pending, fut

\* the PI mutex and condvar (pi.rs): the futex word of the mutex (its owner
\* tid, 0 when free, and the FUTEX_WAITERS bit), the threads the kernel keeps
\* blocked on it, the blocked flag, the condvar's waiter counter and the
\* threads parked on its futex, each thread's position, the data the mutex
\* protects with each thread's copy of it and the increments each has made,
\* the thread whose guard was leaked, the call that returned last, and what
\* the notify_one in progress saw when it was called
VARIABLES futex, pi_waiters, blocked, waiters, fx_parked, pc, counter, tmp,
          laps, leaked, ret, notifying

\* the cells (cell/datacell.rs, coupler.rs, triplecoupler.rs CellValue): the
\* primary value, the two auxiliary values and the closed flag; the threads
\* that call get park on data_available
VARIABLES primary, second, third, closed

\* the semaphore (semaphore.rs SemaphoreInner): the in-use counter, the wait
\* queue of its condvar cv and the guards alive
VARIABLES permissions, sem_cv, guards

\* the data buffer (buf.rs DataBuffer): the contents of its VecDeque
VARIABLES buf

\* the event map (event_map.rs EventMap): the entries of its BTreeMap, as a
\* function from the keys present to their values, and max_delta, <<>> for
\* None and <<d>> for Some(d)
VARIABLES event_map, max_delta

\* the policy channel (policy_channel.rs: a channel whose storage is the
\* Deque): for each thread the value its call holds, and whether the call
\* has changed the contents of the queue so far
VARIABLES in_call

dequeVars == <<data, head, ordered, nextId, last>>

cellVars == <<primary, second, third, closed>>

semVars == <<permissions, sem_cv, guards>>

piVars == <<futex, pi_waiters, blocked, waiters, fx_parked, pc, counter, tmp,
            laps, leaked, ret, notifying>>

\* the state of the auxiliary types
auxVars == <<event_map, max_delta, in_call>>

\* the state of the primitives that are not channels
primitiveVars == <<piVars, cellVars, semVars, buf, auxVars>>

asyncVars == <<send_fut_wakers, send_fut_waker_ids, send_fut_pending,
               recv_fut_wakers, recv_fut_waker_ids, recv_fut_pending, fut>>

channelVars == <<queue, senders, receivers, data_available, space_available,
                 thr, op_no, done, sent, rcvd>>

vars == <<data, head, capacity, ordered, nextId, last, channelVars, asyncVars,
          primitiveVars>>

\* ------------------------------------------------------ VecDeque primitives
\* a queue value: the logical contents and the physical index of the front
Q(d, h) == [data |-> d, head |-> h]

\* VecDeque::as_slices().1.len(): the elements that wrapped past the buffer end
second_slice_len(q, cap) ==
    IF q.head + Len(q.data) <= cap THEN 0 ELSE q.head + Len(q.data) - cap

push_back(q, e) == Q(Append(q.data, e), q.head)

pop_front(q, cap) == Q(Tail(q.data), (q.head + 1) % cap)

\* VecDeque::rotate_right(k): the last k elements become the first k;
\* the shorter side is the one that is moved, which decides the new head
rotate_right(q, k, cap) ==
    LET n == Len(q.data)
        rot == SubSeq(q.data, n - k + 1, n) \o SubSeq(q.data, 1, n - k)
    IN  IF k <= n - k
        THEN Q(rot, (q.head + cap - k) % cap)
        ELSE Q(rot, (q.head + (n - k)) % cap)

\* slice::sort_by with the priority comparison: a stable insertion
RECURSIVE insert_sorted(_, _)
insert_sorted(s, e) ==
    IF s = <<>> THEN <<e>>
    ELSE IF priority(s[Len(s)]) <= priority(e) THEN Append(s, e)
    ELSE Append(insert_sorted(SubSeq(s, 1, Len(s) - 1), e), s[Len(s)])

RECURSIVE stable_sort(_)
stable_sort(s) ==
    IF s = <<>> THEN <<>>
    ELSE insert_sorted(stable_sort(SubSeq(s, 1, Len(s) - 1)), s[Len(s)])

\* ------------------------------------------------------- pdeque.rs: Deque
\* variant: the ring is made contiguous but the sort is left out
sort_by_priority_rotate_only(q, cap) ==
    rotate_right(q, second_slice_len(q, cap), cap)

\* sort_by_priority: make the ring contiguous by rotating it right by the
\* length of its second slice, then stable-sort the single slice
sort_by_priority(q, cap) ==
    LET r == rotate_right(q, second_slice_len(q, cap), cap)
    IN  Q(stable_sort(r.data), r.head)

Out(q, res, adm) == [q |-> q, res |-> res, adm |-> adm]

\* macro push!: push_back, re-sort when ordered, report Pushed
push(q, e, cap, ord) ==
    LET p == push_back(q, e)
    IN  Out(IF ord THEN sort_by_priority(p, cap) ELSE p, "Pushed", TRUE)

\* variant: the capacity is not checked again after the eviction scan
push_final_unchecked(q, e, cap, ord) == push(q, e, cap, ord)

\* variant: the value is handed back unless two slots are free
push_final_one_short(q, e, cap, ord) ==
    IF Len(q.data) + 1 < cap THEN push(q, e, cap, ord) ELSE Out(q, "Full", FALSE)

\* macro push_final!: push when the eviction made room, else hand v back
push_final(q, e, cap, ord) ==
    IF Len(q.data) < cap THEN push(q, e, cap, ord) ELSE Out(q, "Full", FALSE)

\* variant: the retain forgets the kind comparison
single_retain_expired_only(q, v) ==
    Q(SelectSeq(q.data, LAMBDA d : ~is_expired(d)), q.head)

\* the retain of a Single / SingleOptional push; VecDeque::retain keeps the
\* head and compacts the kept elements behind it
single_retain(q, v) ==
    Q(SelectSeq(q.data, LAMBDA d : ~eq_kind(d, v) /\ ~is_expired(d)), q.head)

\* a retain whose closure drops the first of the elements at the indices hits
\* and keeps every other one (the entry_removed flag)
retain_drop_first(q, hits) ==
    IF hits = {} THEN q
    ELSE LET f == CHOOSE i \in hits : \A j \in hits : i <= j
         IN  Q(SubSeq(q.data, 1, f - 1) \o SubSeq(q.data, f + 1, Len(q.data)), q.head)

\* variant: the scan has no entry_removed flag and drops every candidate
evict_always_all(q) ==
    Q(SelectSeq(q.data, LAMBDA d : ~(is_expired(d) \/ is_delivery_policy_optional(d))), q.head)

\* eviction scan of the Always | Single arm
evict_always(q) ==
    retain_drop_first(q, {i \in 1..Len(q.data) :
                            is_expired(q.data[i]) \/ is_delivery_policy_optional(q.data[i])})

\* variant: the Latest scan forgets the kind comparison
evict_latest_no_kind(q, v) == evict_always(q)

\* variant: the Latest scan drops the last candidate instead of the first
evict_latest_last(q, v) ==
    LET hits == {i \in 1..Len(q.data) :
                    is_expired(q.data[i]) \/ is_delivery_policy_optional(q.data[i])
                        \/ eq_kind(q.data[i], v)}
    IN  IF hits = {} THEN q
        ELSE LET f == CHOOSE i \in hits : \A j \in hits : j <= i
             IN  Q(SubSeq(q.data, 1, f - 1) \o SubSeq(q.data, f + 1, Len(q.data)), q.head)

\* eviction scan of the Latest arm
evict_latest(q, v) ==
    retain_drop_first(q, {i \in 1..Len(q.data) :
                            is_expired(q.data[i]) \/ is_delivery_policy_optional(q.data[i])
                                \/ eq_kind(q.data[i], v)})

\* variant: the Optional arm hands the value back as Full
try_push_optional_full(q, v, id, cap, ord) ==
    IF is_expired(v) THEN Out(q, "Pushed", FALSE)
    ELSE LET q1 == IF is_delivery_policy_single(v) THEN single_retain(q, v) ELSE q
             e == Stored(v, id)
         IN  IF Len(q1.data) < cap THEN push(q1, e, cap, ord)
             ELSE IF v.dp \in {"Always", "Single"}
                  THEN push_final(evict_always(q1), e, cap, ord)
             ELSE IF v.dp = "Latest"
                  THEN push_final(evict_latest(q1, v), e, cap, ord)
             ELSE Out(q1, "Full", FALSE)

\* variant: the Single retain runs before the expiry test of the value
try_push_retain_before_expiry(q, v, id, cap, ord) ==
    LET q1 == IF is_delivery_policy_single(v) THEN single_retain(q, v) ELSE q
        e == Stored(v, id)
    IN  IF is_expired(v) THEN Out(q1, "Pushed", FALSE)
        ELSE IF Len(q1.data) < cap THEN push(q1, e, cap, ord)
        ELSE IF v.dp \in {"Always", "Single"}
             THEN push_final(evict_always(q1), e, cap, ord)
        ELSE IF v.dp = "Latest"
             THEN push_final(evict_latest(q1, v), e, cap, ord)
        ELSE Out(q1, "Skipped", FALSE)

\* Deque::try_push; id is the payload identity the value gets when stored
try_push(q, v, id, cap, ord) ==
    IF is_expired(v) THEN Out(q, "Pushed", FALSE)
    ELSE LET q1 == IF is_delivery_policy_single(v) THEN single_retain(q, v) ELSE q
             e == Stored(v, id)
         IN  IF Len(q1.data) < cap THEN push(q1, e, cap, ord)
             ELSE IF v.dp \in {"Always", "Single"}
                  THEN push_final(evict_always(q1), e, cap, ord)
             ELSE IF v.dp = "Latest"
                  THEN push_final(evict_latest(q1, v), e, cap, ord)
             ELSE Out(q1, "Skipped", FALSE)

\* variant: the front is returned without asking is_expired
get_front(q, cap) ==
    IF q.data = <<>> THEN [q |-> q, res |-> "None", val |-> NoVal]
    ELSE [q |-> pop_front(q, cap), res |-> "Some", val |-> Head(q.data)]

\* Deque::get: pop the front until a non-expired value or the deque is empty
RECURSIVE get(_, _)
get(q, cap) ==
    IF q.data = <<>> THEN [q |-> q, res |-> "None", val |-> NoVal]
    ELSE LET value == Head(q.data)
             p == pop_front(q, cap)
         IN  IF ~is_expired(value) THEN [q |-> p, res |-> "Some", val |-> value]
             ELSE get(p, cap)

\* Deque::clear: VecDeque::clear truncates and resets the head
clear(q) == Q(<<>>, 0)

len(q) == Len(q.data)

is_full(q, cap) == len(q) = cap

is_empty(q) == q.data = <<>>

\* ------------------------------------- base_channel.rs: result of a sender
\* ChannelInner::try_send, given what the storage answered
try_send_result(res) ==
    CASE res = "Pushed" -> "Ok"
      [] res = "Skipped" -> "ChannelSkipped"
      [] res = "Full" -> "ChannelFull"

\* ChannelInner::send / send_timeout: Full keeps the sender in its wait loop
send_result(res) ==
    CASE res = "Pushed" -> "Ok"
      [] res = "Skipped" -> "ChannelSkipped"
      [] res = "Full" -> "wait"

\* --------------------------------------------------------------- the system
\* the sync channel has no queues of waiting operations and no futures
NoAsync ==
    /\ send_fut_wakers = <<>>
    /\ send_fut_waker_ids = {}
    /\ send_fut_pending = {}
    /\ recv_fut_wakers = <<>>
    /\ recv_fut_waker_ids = {}
    /\ recv_fut_pending = {}
    /\ fut = <<>>

\* no PI mutex or condvar is in use
NoPi ==
    /\ futex = <<>>
    /\ pi_waiters = {}
    /\ blocked = FALSE
    /\ waiters = 0
    /\ fx_parked = {}
    /\ pc = <<>>
    /\ counter = 0
    /\ tmp = <<>>
    /\ laps = <<>>
    /\ leaked = ""
    /\ ret = <<>>
    /\ notifying = <<>>

\* no cell is in use
NoCell == primary = 0 /\ second = 0 /\ third = 0 /\ closed = FALSE

\* no semaphore is in use
NoSemaphore == permissions = 0 /\ sem_cv = <<>> /\ guards = {}

\* no data buffer is in use
NoBuffer == buf = <<>>

\* no event map is in use
NoEventMap == event_map = <<>> /\ max_delta = <<>>

\* none of the auxiliary types is in use
NoAux == NoEventMap /\ in_call = <<>>

\* only the channels and the deque are exercised
NoPrimitives == NoPi /\ NoCell /\ NoSemaphore /\ NoBuffer /\ NoAux

\* no channel is in use while the deque is exercised on its own
NoChannel ==
    /\ queue = <<>>
    /\ senders = 0
    /\ receivers = 0
    /\ data_available = <<>>
    /\ space_available = <<>>
    /\ thr = <<>>
    /\ op_no = 0
    /\ done = <<>>
    /\ sent = <<>>
    /\ rcvd = <<>>
    /\ NoAsync

\* Deque::bounded(capacity).set_ordering(ordered)
Init ==
    /\ capacity \in 1..MaxCap
    /\ ordered \in BOOLEAN
    /\ data = <<>>
    /\ head = 0
    /\ nextId = 1
    /\ last = [op |-> "new", res |-> "-", adm |-> FALSE, rm |-> 0, val |-> NoVal]
    /\ NoChannel
    /\ NoPrimitives

\* what try_push(v) called in the current state does
Outcome(v) == try_push(Q(data, head), v, nextId, capacity, ordered)

TryPush(v) ==
    /\ nextId <= MaxPush
    /\ \E r \in {Outcome(v)} :
           /\ data' = r.q.data
           /\ head' = r.q.head
           /\ nextId' = IF r.adm THEN nextId + 1 ELSE nextId
           /\ last' = [op |-> "try_push", res |-> r.res, adm |-> r.adm,
                      rm |-> Len(data) - Len(r.q.data) + (IF r.adm THEN 1 ELSE 0),
                      val |-> NoVal]
    /\ UNCHANGED <<capacity, ordered, channelVars, asyncVars, primitiveVars>>

Get ==
    /\ \E r \in {get(Q(data, head), capacity)} :
           /\ data' = r.q.data
           /\ head' = r.q.head
           /\ last' = [op |-> "get", res |-> r.res, adm |-> FALSE,
                      rm |-> Len(data) - Len(r.q.data),
                      val |-> IF r.res = "Some" THEN Seen(r.val) ELSE NoVal]
    /\ UNCHANGED <<capacity, ordered, nextId, channelVars, asyncVars, primitiveVars>>

Clear ==
    /\ LET r == clear(Q(data, head))
       IN  /\ data' = r.data
           /\ head' = r.head
    /\ last' = [op |-> "clear", res |-> "-", adm |-> FALSE, rm |-> Len(data), val |-> NoVal]
    /\ UNCHANGED <<capacity, ordered, nextId, channelVars, asyncVars, primitiveVars>>

\* time passes: a queued value's is_expired() turns true
Expire(i) ==
    /\ i \in 1..Len(data)
    /\ ~data[i].exp
    /\ data' = [data EXCEPT ![i].exp = TRUE]
    /\ UNCHANGED <<head, capacity, ordered, nextId, last, channelVars, asyncVars, primitiveVars>>

\* priority() is read by sort_by_priority only, that is of a value stored in
\* an ordered deque: every other value is offered with one priority
Offered == {v \in Values : (~ordered \/ v.exp) => v.prio = 1}

Next ==
    \/ \E v \in Offered : TryPush(v)
    \/ Get
    \/ Clear
    \/ \E i \in 1..MaxCap : Expire(i)

Spec == Init /\ [][Next]_vars

TypeOK ==
    /\ capacity \in 1..MaxCap
    /\ ordered \in BOOLEAN
    /\ head \in 0..(capacity - 1)
    /\ nextId \in 1..(MaxPush + 1)
    /\ \A i \in 1..Len(data) : data[i].id \in 1..MaxPush

\* ------------------------------------------------------------ vocabulary
Elems(d) == {d[i] : i \in 1..Len(d)}

\* d without its k-th element
Without(d, k) == SubSeq(d, 1, k - 1) \o SubSeq(d, k + 1, Len(d))

Least(S) == CHOOSE i \in S : \A j \in S : i <= j

Sorted(d) == \A i, j \in 1..Len(d) : i < j => d[i].prio <= d[j].prio

\* the queued elements a Single / SingleOptional push of v removes first
SingleRemoved(d, v) ==
    {i \in 1..Len(d) : is_delivery_policy_single(v) /\ (d[i].kind = v.kind \/ d[i].exp)}

\* the eviction candidates of an Always | Single push
Sacrificial(d) ==
    {i \in 1..Len(d) : d[i].exp \/ d[i].dp \in {"Optional", "SingleOptional"}}

\* the eviction candidates of a Latest push of v
SacrificialOrKind(d, v) == Sacrificial(d) \cup {i \in 1..Len(d) : d[i].kind = v.kind}

\* the values offered by class, fresh (not expired) or expired
Fresh(classes) == {v \in Values : ~v.exp /\ v.dp \in classes}

FreshSingle == Fresh({"Single", "SingleOptional"})

FreshAlways == Fresh({"Always", "Single"})

FreshLatest == Fresh({"Latest"})

FreshOptional == Fresh({"Optional", "SingleOptional"})

Expired == {v \in Values : v.exp}

\* a try_push call can be made in the current state (TryPush is enabled); the
\* claims about a call speak of the calls that are made
Callable == nextId <= MaxPush

\* ------------------------------------------------------------------ claims
\* C1: a deque of capacity C > 0 never stores more than C elements, whatever
\* try_push, get and clear calls were made.
C1_LenWithinCapacity == Len(data) <= capacity

\* more values were admitted than the deque holds, and it is full again
C1_Witness ==
    /\ last.op = "try_push" /\ last.adm
    /\ Len(data) = capacity
    /\ nextId - 1 > capacity

\* C2: get never returns an expired value: it discards the front elements up to
\* the first non-expired one, which it returns, or returns None leaving the
\* deque empty when every queued element is expired.
C2_GetSkipsExpired ==
    [][Get =>
        LET live == {i \in 1..Len(data) : ~data[i].exp}
        IN  IF live = {}
            THEN last'.res = "None" /\ data' = <<>>
            ELSE /\ last'.res = "Some"
                 /\ ~last'.val.exp
                 /\ last'.val = Seen(data[Least(live)])
                 /\ data' = SubSeq(data, Least(live) + 1, Len(data))]_vars

\* get returned a value after discarding an expired one in front of it
C2_Witness == last.op = "get" /\ last.res = "Some" /\ last.rm >= 2

\* C3: right after try_push(v) returned Pushed for a non-expired Single or
\* SingleOptional v, v is stored and is the only queued element of its kind.
C3_SingleIsUnique ==
    Callable =>
    \A v \in FreshSingle :
        \A r \in {Outcome(v)} :
              r.res = "Pushed"
              => /\ Stored(v, nextId) \in Elems(r.q.data)
                 /\ \A e \in Elems(r.q.data) : e.kind = v.kind => e = Stored(v, nextId)

\* a Single* value was stored into a deque that was full, all of whose
\* elements the push removed
C3_Witness ==
    /\ last.op = "try_push" /\ last.adm
    /\ capacity >= 2 /\ last.rm = capacity
    /\ \E e \in Elems(data) : e.id = nextId - 1 /\ is_delivery_policy_single(e)

\* C4: with ordering on, the deque is sorted ascending by priority after every
\* call, and gets with no push between them return non-decreasing priorities.
C4_SortedByPriority ==
    /\ [](ordered => Sorted(data))
    /\ [][(ordered /\ last.op = "get" /\ last.res = "Some" /\ Get /\ last'.res = "Some")
            => last.val.prio <= last'.val.prio]_vars

\* the push moved a later value of better priority in front of an earlier one
C4_Witness ==
    /\ ordered /\ last.op = "try_push" /\ last.adm
    /\ Len(data) >= 2
    /\ data[1].id = nextId - 1
    /\ data[1].prio < data[2].prio

\* C5: in ordered mode, queued elements of equal priority stay in the order in
\* which they were admitted (so get returns them in that order).
C5_StableAmongEqualPriority ==
    ordered => \A i, j \in 1..Len(data) :
                  (i < j /\ data[i].prio = data[j].prio) => data[i].id < data[j].id

\* the failing run of C5: capacity 2, ordered; three values of one priority
\* pushed as 1, 2, get, 3 leave the deque as <<3, 2>>
C5_Reordered ==
    /\ ordered /\ last.op = "try_push" /\ last.adm
    /\ \E i, j \in 1..Len(data) :
          i < j /\ data[i].prio = data[j].prio /\ data[i].id > data[j].id

\* C6: a non-expired Always or Single value pushed into a deque that is still
\* full after the Single removal evicts exactly the front-most element that is
\* expired or Optional/SingleOptional and is Pushed; with no such element the
\* result is Full and nothing is evicted.
C6_AlwaysEvictsFrontMost ==
    (Callable /\ Len(data) = capacity) =>
    \A v \in FreshAlways :
        SingleRemoved(data, v) = {}
        => \A r \in {Outcome(v)} :
               IF Sacrificial(data) = {}
               THEN r.res = "Full" /\ r.q = Q(data, head)
               ELSE /\ r.res = "Pushed"
                    /\ Len(r.q.data) = capacity
                    /\ Elems(r.q.data) = Elems(Without(data, Least(Sacrificial(data))))
                                            \cup {Stored(v, nextId)}
                    /\ ~ordered => r.q.data = Append(Without(data, Least(Sacrificial(data))),
                                                     Stored(v, nextId))

\* a push into a full deque evicted one element and a sacrificial one is left
C6_Witness ==
    /\ last.op = "try_push" /\ last.adm /\ last.rm = 1
    /\ Len(data) = capacity
    /\ \E e \in Elems(data) : e.id = nextId - 1 /\ e.dp \in {"Always", "Single"}
    /\ \E e \in Elems(data) : e.id # nextId - 1 /\ e.dp \in {"Optional", "SingleOptional"}

\* C7: a non-expired Latest value pushed into a full deque evicts exactly the
\* front-most element that is expired, Optional/SingleOptional or of its kind
\* and is Pushed; with no such element the result is Full and nothing is evicted.
C7_LatestEvictsFrontMost ==
    (Callable /\ Len(data) = capacity) =>
    \A v \in FreshLatest :
        \A r \in {Outcome(v)}, c \in {SacrificialOrKind(data, v)} :
               IF c = {}
               THEN r.res = "Full" /\ r.q = Q(data, head)
               ELSE /\ r.res = "Pushed"
                    /\ Len(r.q.data) = capacity
                    /\ Elems(r.q.data) = Elems(Without(data, Least(c))) \cup {Stored(v, nextId)}
                    /\ ~ordered => r.q.data = Append(Without(data, Least(c)), Stored(v, nextId))

\* a Latest push into a full deque evicted one element, a same-kind one is left
C7_Witness ==
    /\ last.op = "try_push" /\ last.adm /\ last.rm = 1
    /\ Len(data) = capacity
    /\ \E e \in Elems(data) :
          /\ e.id = nextId - 1 /\ e.dp = "Latest"
          /\ \E o \in Elems(data) : o.id # e.id /\ o.kind = e.kind

\* C8 as claimed: a (non-expired) Latest value pushed into a full deque holding
\* an element of its kind drops the oldest queued element of that kind and is
\* admitted.
C8_LatestDropsOldestOfKind ==
    [][\A v \in FreshLatest :
        (/\ Len(data) = capacity
         /\ \E e \in Elems(data) : e.kind = v.kind
         /\ TryPush(v))
        => LET same == {e \in Elems(data) : e.kind = v.kind}
               oldest == CHOOSE e \in same : \A o \in same : e.id <= o.id
           IN  Elems(data') = (Elems(data) \ {oldest}) \cup {Stored(v, nextId)}]_vars

\* C8 as amended: such a push drops exactly one element, the front-most one
\* that is expired, Optional/SingleOptional or of v's kind, and admits v; the
\* dropped element is the oldest of v's kind when the deque is unordered and
\* no expired or Optional/SingleOptional element precedes it.
C8_LatestDropsFrontMostCandidate ==
    (Callable /\ Len(data) = capacity) =>
    \A v \in FreshLatest :
        (\E e \in Elems(data) : e.kind = v.kind)
        => \A r \in {Outcome(v)}, f \in {Least(SacrificialOrKind(data, v))} :
           LET same == {e \in Elems(data) : e.kind = v.kind}
           IN  /\ r.res = "Pushed"
               /\ Elems(r.q.data) = (Elems(data) \ {data[f]}) \cup {Stored(v, nextId)}
               /\ (~ordered /\ \A i \in Sacrificial(data) : f < i)
                    => (data[f] \in same /\ \A o \in same : data[f].id <= o.id)

\* a Latest value was admitted into a full deque in which it met its kind
C8_Witness ==
    /\ last.op = "try_push" /\ last.adm /\ last.rm = 1
    /\ Len(data) = capacity /\ capacity >= 2
    /\ \E e \in Elems(data) :
          /\ e.id = nextId - 1 /\ e.dp = "Latest"
          /\ \E o \in Elems(data) :
                o.id # e.id /\ o.kind = e.kind /\ o.dp \notin {"Optional", "SingleOptional"}

\* C9 as claimed: a non-expired Optional or SingleOptional value pushed into a
\* deque with no free slot is Skipped, never Full, the deque is left as it
\* was, and the channel senders report ChannelSkipped without waiting.
C9_OptionalSkippedWhenNoFreeSlot ==
    [][\A v \in FreshOptional :
        (Len(data) = capacity /\ TryPush(v))
        => /\ last'.res = "Skipped"
           /\ data' = data /\ head' = head
           /\ try_send_result(last'.res) = "ChannelSkipped"
           /\ send_result(last'.res) = "ChannelSkipped"]_vars

\* C9 as amended: the same, for a SingleOptional value only when no queued
\* element is of its kind or expired (the Single removal runs first and may
\* free a slot); an Optional* push never answers Full, a Skipped one leaves
\* the deque as it was, and an Optional value is stored only into a free slot.
C9_OptionalSkippedWhenStillFull ==
    Callable =>
    \A v \in FreshOptional :
        \A r \in {Outcome(v)} :
               /\ r.res # "Full"
               /\ send_result(r.res) # "wait"
               /\ r.res = "Skipped" => r.q = Q(data, head)
               /\ (v.dp = "Optional" /\ r.res = "Pushed") => Len(data) < capacity
               /\ (Len(data) = capacity /\ SingleRemoved(data, v) = {})
                    => /\ r.res = "Skipped"
                       /\ r.q = Q(data, head)
                       /\ try_send_result(r.res) = "ChannelSkipped"
                       /\ send_result(r.res) = "ChannelSkipped"

\* a push was skipped on a full deque
C9_Witness ==
    /\ last.op = "try_push" /\ last.res = "Skipped" /\ ~last.adm /\ last.rm = 0
    /\ Len(data) = capacity

\* C10: try_push of an expired value returns Pushed and leaves the deque as it
\* was: the value is not stored and no queued element is removed, whatever the
\* class and kind of the value.
C10_ExpiredPushIsNoOp ==
    Callable =>
    \A v \in Expired :
        \A r \in {Outcome(v)} :
            r.res = "Pushed" /\ ~r.adm /\ r.q = Q(data, head)

\* a push answered Pushed without storing, with elements queued
C10_Witness ==
    /\ last.op = "try_push" /\ last.res = "Pushed" /\ ~last.adm /\ last.rm = 0
    /\ data # <<>>

\* ======================================================================
\* The sync channel (base_channel.rs) over the FIFO storage of channel.rs.
\*
\* Every body of ChannelInner runs with the channel mutex held from lock()
\* to a condvar wait or to its return, so one action is one such section.
\* A condition variable is the queue of the threads parked on it:
\* notify_one releases the longest-parked one (futex wake order among equal
\* priorities), notify_all releases all.  A released thread is "woken": it
\* runs again when it has re-acquired the mutex, in any order with the
\* other threads that want the mutex.
\* ======================================================================

SenderThreads == {"s1", "s2"}

ReceiverThreads == {"r1", "r2"}

Threads == SenderThreads \cup ReceiverThreads

SendOps == {"send", "send_timeout", "try_send"}

RecvOps == {"recv", "recv_timeout", "try_recv"}

\* the operations of the async channel: the Send and Recv futures, the
\* blocking calls and the try_ calls
AsyncSendOps == {"Send", "send_blocking", "send_blocking_timeout", "try_send"}

AsyncRecvOps == {"Recv", "recv_blocking", "recv_blocking_timeout", "try_recv"}

\* a thread: st is "none" (no handle yet), "idle" (holds a handle, in no
\* call), "wait" (parked on a condvar), "woken" (released, mutex not yet
\* re-acquired) or "dropped"; op and no are the call it is in and that
\* call's number (a sender sends its call number as the value)
NoThread == [st |-> "none", op |-> "-", no |-> 0]

Idle == [st |-> "idle", op |-> "-", no |-> 0]

\* the call that returned last: thread, operation, call number, result, the
\* value received, and the number of handles of the other side at its return
NoCall == [t |-> "-", op |-> "-", no |-> 0, res |-> "-", got |-> 0, peers |-> 0]

\* ------------------------------------ channel.rs: ChannelStorage for VecDeque
VecDeque_try_push(q, v, cap) ==
    IF Len(q) = cap THEN [q |-> q, res |-> "Full"]
    ELSE [q |-> Append(q, v), res |-> "Pushed"]

\* variant: the newest value is taken
VecDeque_get_back(q) ==
    IF q = <<>> THEN [q |-> q, res |-> "None", val |-> 0]
    ELSE [q |-> SubSeq(q, 1, Len(q) - 1), res |-> "Some", val |-> q[Len(q)]]

VecDeque_get(q) ==
    IF q = <<>> THEN [q |-> q, res |-> "None", val |-> 0]
    ELSE [q |-> Tail(q), res |-> "Some", val |-> Head(q)]

\* ------------------------------------------------ condvar (pi.rs Condvar)
wait(cv, t) == Append(cv, t)

\* the threads notify_one releases, and the wait queue it leaves
notify_one_wakes(cv) == IF cv = <<>> THEN {} ELSE {Head(cv)}

notify_one(cv) == IF cv = <<>> THEN cv ELSE Tail(cv)

notify_all_wakes(cv) == {cv[i] : i \in 1..Len(cv)}

notify_all(cv) == <<>>

\* wait_for gives up: the thread leaves the wait queue
timed_out(cv, t) == SelectSeq(cv, LAMBDA u : u # t)

\* the threads of W become runnable
Woken(th, W) == [u \in Threads |-> IF u \in W THEN [th[u] EXCEPT !.st = "woken"] ELSE th[u]]

\* thread t returns from its call
Returned(th, t) == [th EXCEPT ![t] = Idle]

\* the record of thread t returning res (and the value got) from call no of op
Call(t, op, no, res, got) ==
    [t |-> t, op |-> op, no |-> no, res |-> res, got |-> got,
     peers |-> IF op \in SendOps \cup AsyncSendOps THEN receivers ELSE senders]

\* thread t parks in call no of op
Parked(th, t, op, no) ==
    [th EXCEPT ![t] = [st |-> "wait", op |-> op, no |-> no]]

\* the channels here use the FIFO storage: no policy deque
NoDeque ==
    /\ data = <<>> /\ head = 0 /\ ordered = FALSE /\ nextId = 0
    /\ last = [op |-> "new", res |-> "-", adm |-> FALSE, rm |-> 0, val |-> NoVal]

\* make_channel(BaseChannel::new(capacity, false)): one sender, one receiver
ChannelInit ==
    /\ capacity \in 1..MaxCap
    /\ queue = <<>>
    /\ senders = 1
    /\ receivers = 1
    /\ data_available = <<>>
    /\ space_available = <<>>
    /\ thr = [t \in Threads |-> IF t \in {"s1", "r1"} THEN Idle ELSE NoThread]
    /\ op_no = 1
    /\ done = NoCall
    /\ sent = <<>>
    /\ rcvd = <<>>
    /\ NoAsync
    /\ NoDeque
    /\ NoPrimitives

\* ------------------------------------------- base_channel.rs: ChannelInner
\* a call returns an error, or Timeout, and leaves the channel as it is
Fails(t, op, no, res) ==
    /\ thr' = Returned(thr, t)
    /\ done' = Call(t, op, no, res, 0)
    /\ UNCHANGED <<queue, data_available, space_available, sent, rcvd>>

\* the Pushed arm: data_available.notify_one(), Ok(())
Pushed(t, op, no, q) ==
    /\ queue' = q
    /\ data_available' = notify_one(data_available)
    /\ thr' = Woken(Returned(thr, t), notify_one_wakes(data_available))
    /\ done' = Call(t, op, no, "Ok", 0)
    /\ sent' = Append(sent, no)
    /\ UNCHANGED <<space_available, rcvd>>

\* the Some arm: space_available.notify_one(), Ok(val)
Received(t, op, no, q, val) ==
    /\ queue' = q
    /\ space_available' = notify_one(space_available)
    /\ thr' = Woken(Returned(thr, t), notify_one_wakes(space_available))
    /\ done' = Call(t, op, no, "Ok", val)
    /\ rcvd' = Append(rcvd, val)
    /\ UNCHANGED <<data_available, sent>>

\* variant: the receiver count is looked at only when the storage is full
send_push_before_check(t, op, no) ==
    \E r \in {VecDeque_try_push(queue, no, capacity)} :
        IF send_result(r.res) = "wait"
        THEN IF receivers = 0 THEN Fails(t, op, no, "ChannelClosed")
             ELSE /\ thr' = Parked(thr, t, op, no)
                  /\ space_available' = wait(space_available, t)
                  /\ UNCHANGED <<queue, data_available, done, sent, rcvd>>
        ELSE Pushed(t, op, no, r.q)

\* one turn of the loop of send (op = "send") or send_timeout
send(t, op, no) ==
    IF receivers = 0 THEN Fails(t, op, no, "ChannelClosed")
    ELSE \E r \in {VecDeque_try_push(queue, no, capacity)} :
             IF send_result(r.res) = "wait"
             THEN /\ thr' = Parked(thr, t, op, no)
                  /\ space_available' = wait(space_available, t)
                  /\ UNCHANGED <<queue, data_available, done, sent, rcvd>>
             ELSE IF send_result(r.res) = "Ok" THEN Pushed(t, op, no, r.q)
             ELSE Fails(t, op, no, send_result(r.res))

try_send(t, no) ==
    IF receivers = 0 THEN Fails(t, "try_send", no, "ChannelClosed")
    ELSE \E r \in {VecDeque_try_push(queue, no, capacity)} :
             IF try_send_result(r.res) = "Ok" THEN Pushed(t, "try_send", no, r.q)
             ELSE Fails(t, "try_send", no, try_send_result(r.res))

\* variant: the sender count is looked at before the queue
recv_closed_first(t, op, no) ==
    \E r \in {VecDeque_get(queue)} :
        IF senders = 0 THEN Fails(t, op, no, "ChannelClosed")
        ELSE IF r.res = "Some" THEN Received(t, op, no, r.q, r.val)
        ELSE /\ thr' = Parked(thr, t, op, no)
             /\ data_available' = wait(data_available, t)
             /\ UNCHANGED <<queue, space_available, done, sent, rcvd>>

\* one turn of the loop of recv (op = "recv") or recv_timeout
recv(t, op, no) ==
    \E r \in {VecDeque_get(queue)} :
        IF r.res = "Some" THEN Received(t, op, no, r.q, r.val)
        ELSE IF senders = 0 THEN Fails(t, op, no, "ChannelClosed")
        ELSE /\ thr' = Parked(thr, t, op, no)
             /\ data_available' = wait(data_available, t)
             /\ UNCHANGED <<queue, space_available, done, sent, rcvd>>

try_recv(t, no) ==
    \E r \in {VecDeque_get(queue)} :
        IF r.res = "Some" THEN Received(t, "try_recv", no, r.q, r.val)
        ELSE IF senders = 0 THEN Fails(t, "try_recv", no, "ChannelClosed")
        ELSE Fails(t, "try_recv", no, "ChannelEmpty")

\* ------------------------------------------------------ the channel's steps
\* a thread holding a sender calls send, send_timeout or try_send
SendCall(t, op) ==
    /\ t \in SenderThreads /\ op \in SendOps
    /\ thr[t].st = "idle"
    /\ op_no <= MaxOps
    /\ op_no' = op_no + 1
    /\ IF op = "try_send" THEN try_send(t, op_no) ELSE send(t, op, op_no)
    /\ UNCHANGED <<senders, receivers, capacity, dequeVars, primitiveVars, asyncVars>>

\* a sender released from space_available has the mutex again
SendResume(t) ==
    /\ t \in SenderThreads
    /\ thr[t].st = "woken"
    /\ send(t, thr[t].op, thr[t].no)
    /\ UNCHANGED <<senders, receivers, op_no, capacity, dequeVars, primitiveVars, asyncVars>>

RecvCall(t, op) ==
    /\ t \in ReceiverThreads /\ op \in RecvOps
    /\ thr[t].st = "idle"
    /\ op_no <= MaxOps
    /\ op_no' = op_no + 1
    /\ IF op = "try_recv" THEN try_recv(t, op_no) ELSE recv(t, op, op_no)
    /\ UNCHANGED <<senders, receivers, capacity, dequeVars, primitiveVars, asyncVars>>

\* a receiver released from data_available has the mutex again
RecvResume(t) ==
    /\ t \in ReceiverThreads
    /\ thr[t].st = "woken"
    /\ recv(t, thr[t].op, thr[t].no)
    /\ UNCHANGED <<senders, receivers, op_no, capacity, dequeVars, primitiveVars, asyncVars>>

\* wait_for(..).timed_out(): send_timeout and recv_timeout return Timeout
Timeout(t) ==
    /\ thr[t].st = "wait"
    /\ thr[t].op \in {"send_timeout", "recv_timeout"}
    /\ space_available' = timed_out(space_available, t)
    /\ data_available' = timed_out(data_available, t)
    /\ thr' = Returned(thr, t)
    /\ done' = Call(t, thr[t].op, thr[t].no, "Timeout", 0)
    /\ UNCHANGED <<queue, senders, receivers, op_no, sent, rcvd, capacity, dequeVars, primitiveVars, asyncVars>>

\* Clone for BaseSender
CloneSender(t) ==
    /\ t \in SenderThreads
    /\ thr[t].st = "none"
    /\ \E u \in SenderThreads : thr[u].st \in {"idle", "wait", "woken"}
    /\ senders' = senders + 1
    /\ thr' = [thr EXCEPT ![t].st = "idle"]
    /\ UNCHANGED <<queue, receivers, data_available, space_available, op_no,
                   done, sent, rcvd, capacity, dequeVars, primitiveVars, asyncVars>>

\* Clone for BaseReceiver
CloneReceiver(t) ==
    /\ t \in ReceiverThreads
    /\ thr[t].st = "none"
    /\ \E u \in ReceiverThreads : thr[u].st \in {"idle", "wait", "woken"}
    /\ receivers' = receivers + 1
    /\ thr' = [thr EXCEPT ![t].st = "idle"]
    /\ UNCHANGED <<queue, senders, data_available, space_available, op_no,
                   done, sent, rcvd, capacity, dequeVars, primitiveVars, asyncVars>>

\* variant: the last sender's drop releases one receiver only
DropSender_notify_one(t) ==
    /\ t \in SenderThreads
    /\ thr[t].st = "idle"
    /\ senders' = senders - 1
    /\ IF senders' = 0
       THEN /\ data_available' = notify_one(data_available)
            /\ thr' = Woken([thr EXCEPT ![t].st = "dropped"], notify_one_wakes(data_available))
       ELSE /\ thr' = [thr EXCEPT ![t].st = "dropped"]
            /\ UNCHANGED data_available
    /\ UNCHANGED <<queue, receivers, space_available, op_no, done, sent, rcvd,
                   capacity, dequeVars, primitiveVars, asyncVars>>

\* Drop for BaseSender
DropSender(t) ==
    /\ t \in SenderThreads
    /\ thr[t].st = "idle"
    /\ senders' = senders - 1
    /\ IF senders' = 0
       THEN /\ data_available' = notify_all(data_available)
            /\ thr' = Woken([thr EXCEPT ![t].st = "dropped"], notify_all_wakes(data_available))
       ELSE /\ thr' = [thr EXCEPT ![t].st = "dropped"]
            /\ UNCHANGED data_available
    /\ UNCHANGED <<queue, receivers, space_available, op_no, done, sent, rcvd,
                   capacity, dequeVars, primitiveVars, asyncVars>>

\* Drop for BaseReceiver: the condvar notified is data_available
DropReceiver(t) ==
    /\ t \in ReceiverThreads
    /\ thr[t].st = "idle"
    /\ receivers' = receivers - 1
    /\ IF receivers' = 0
       THEN /\ data_available' = notify_all(data_available)
            /\ thr' = Woken([thr EXCEPT ![t].st = "dropped"], notify_all_wakes(data_available))
       ELSE /\ thr' = [thr EXCEPT ![t].st = "dropped"]
            /\ UNCHANGED data_available
    /\ UNCHANGED <<queue, senders, space_available, op_no, done, sent, rcvd,
                   capacity, dequeVars, primitiveVars, asyncVars>>

ChannelNext ==
    \/ \E t \in SenderThreads, op \in SendOps : SendCall(t, op)
    \/ \E t \in SenderThreads : SendResume(t)
    \/ \E t \in ReceiverThreads, op \in RecvOps : RecvCall(t, op)
    \/ \E t \in ReceiverThreads : RecvResume(t)
    \/ \E t \in Threads : Timeout(t)
    \/ \E t \in SenderThreads : CloneSender(t)
    \/ \E t \in ReceiverThreads : CloneReceiver(t)
    \/ \E t \in SenderThreads : DropSender(t)
    \/ \E t \in ReceiverThreads : DropReceiver(t)

Channel == ChannelInit /\ [][ChannelNext]_vars

\* a released thread gets the mutex and runs
FairChannel ==
    /\ Channel
    /\ \A t \in SenderThreads : WF_vars(SendResume(t))
    /\ \A t \in ReceiverThreads : WF_vars(RecvResume(t))

\* ---------------------------------------------------- channel vocabulary
\* thread t is inside a blocking call of op: parked, or released and not
\* yet running
Blocked(t, op) == thr[t].st \in {"wait", "woken"} /\ thr[t].op = op

\* only the two handles make_channel returned were ever used
OneToOne == thr["s2"].st = "none" /\ thr["r2"].st = "none"

Increasing(q) == \A i, j \in 1..Len(q) : i < j => q[i] < q[j]

\* ----------------------------------------------------------------- C11
\* C11: a recv, recv_timeout or try_recv that returns ChannelClosed was made
\* with no sender left and an empty queue; while the queue holds a value a
\* receive (that does not time out) returns the front value, also after the
\* last sender is gone; try_recv on an empty queue with a live sender
\* returns ChannelEmpty.
C11_ClosedOnlyWhenDrained ==
    [][(done' # done /\ done'.op \in RecvOps) =>
          /\ done'.res = "ChannelClosed" => (senders = 0 /\ queue = <<>>)
          /\ (queue # <<>> /\ done'.res # "Timeout") =>
                 (done'.res = "Ok" /\ done'.got = Head(queue) /\ queue' = Tail(queue))
          /\ (done'.op = "try_recv" /\ queue = <<>> /\ senders > 0) =>
                 done'.res = "ChannelEmpty"]_vars

\* a value is delivered after the last sender was dropped, another is queued
C11_Witness ==
    /\ done.op \in RecvOps /\ done.res = "Ok"
    /\ done.peers = 0
    /\ queue # <<>>

\* ----------------------------------------------------------------- C12
\* C12: while the receiver count is 0 no sender parks, every send,
\* send_timeout or try_send that runs (a new call or a sender released
\* from its wait) returns ChannelClosed, and the queue is not modified.
C12_SendOnClosedChannel ==
    [][receivers = 0 =>
          /\ \A t \in SenderThreads : thr'[t].st = "wait" => thr[t].st = "wait"
          /\ (done' # done /\ done'.op \in SendOps /\ done'.res # "Timeout") =>
                 done'.res = "ChannelClosed"
          /\ queue' = queue]_vars

\* a sender that was blocked returns ChannelClosed with a free slot in the queue
C12_Witness ==
    /\ receivers = 0
    /\ done.op = "send" /\ done.res = "ChannelClosed"
    /\ done.no < op_no - 1
    /\ Len(queue) < capacity

\* ----------------------------------------------------------------- C13
\* C13: once no sender is left and the queue is empty, every thread blocked
\* in recv() returns ChannelClosed.
C13_ReceiversReleasedOnClose ==
    \A t \in ReceiverThreads :
        (senders = 0 /\ queue = <<>> /\ Blocked(t, "recv"))
            ~> (done.t = t /\ done.res = "ChannelClosed")

\* the drop of the last sender has released two receivers blocked in recv()
C13_Witness ==
    /\ senders = 0
    /\ \A t \in ReceiverThreads : thr[t].st = "woken" /\ thr[t].op = "recv"

\* ----------------------------------------------------------------- C14
\* C14: once no receiver is left, every thread blocked in send() returns
\* ChannelClosed.
C14_SendersReleasedOnClose ==
    \A t \in SenderThreads :
        (receivers = 0 /\ Blocked(t, "send"))
            ~> (done.t = t /\ done.res = "ChannelClosed")

\* the last receiver is gone and a sender is still parked in send()
C14_Stuck ==
    /\ receivers = 0
    /\ \E t \in SenderThreads : thr[t].st = "wait" /\ thr[t].op = "send"

\* ----------------------------------------------------------------- C16
\* C16: with one sender and one receiver the values sent with success are,
\* in the order of the calls, the values received followed by the values
\* still queued: none is lost, duplicated or reordered.
C16_FifoDelivery ==
    OneToOne => (sent = rcvd \o queue /\ Increasing(sent))

\* one value was received while a later one is still queued
C16_Witness ==
    /\ OneToOne
    /\ rcvd # <<>>
    /\ queue # <<>>

\* ----------------------------------------------------------------- C17
\* C17: a send() is admitted only when no sender that called send() earlier
\* is still blocked, and a recv() obtains a value only when no receiver that
\* called recv() earlier is still blocked.
C17_WaitersServedInOrder ==
    [][(done' # done /\ done'.res = "Ok" /\ done'.op \in {"send", "recv"}) =>
          \A u \in Threads :
              (u # done'.t /\ Blocked(u, done'.op)) => thr[u].no > done'.no]_vars

\* a blocked receiver was released and a later recv() took the value
C17_Overtaken ==
    /\ done.op = "recv" /\ done.res = "Ok"
    /\ \E u \in ReceiverThreads : Blocked(u, "recv") /\ thr[u].no < done.no

\* ======================================================================
\* The async channel (base_channel_async.rs) over the same FIFO storage.
\*
\* An operation id is the number of the call that made the future (op_id()
\* hands out distinct numbers, and only their identity is used).  An entry
\* of a waker queue is such an id, or None for a thread parked in a
\* blocking call.  waker.wake() marks the future woken: its task will poll
\* it again; a future may also be polled without having been woken.
\* A future is made and polled for the first time in one step.
\* The condvars are parking_lot's: notify_one releases the longest-parked
\* thread and there are no spurious wake-ups.
\* ======================================================================

None == 0

\* one side of the bookkeeping of InnerData
Side(w, i, p) == [wakers |-> w, ids |-> i, pending |-> p]

SendSide == Side(send_fut_wakers, send_fut_waker_ids, send_fut_pending)

RecvSide == Side(recv_fut_wakers, recv_fut_waker_ids, recv_fut_pending)

\* what a wake does: the side it leaves, the futures whose waker it calls
\* and the condvar notification it makes ("none", "one" or "all")
WakeOut(sd, wake, notify) == [s |-> sd, wake |-> wake, notify |-> notify]

wake_next_send(sd) ==
    IF sd.wakers = <<>> THEN WakeOut(sd, {}, "none")
    ELSE LET w == Head(sd.wakers)
         IN  IF w # None
             THEN WakeOut(Side(Tail(sd.wakers), sd.ids \ {w}, sd.pending \cup {w}), {w}, "none")
             ELSE WakeOut(Side(Tail(sd.wakers), sd.ids, sd.pending), {}, "one")

wake_all_sends_first(sd) == wake_next_send(sd)

wake_all_sends(sd) ==
    WakeOut(Side(<<>>, {}, sd.pending),
            {sd.wakers[i] : i \in 1..Len(sd.wakers)} \ {None}, "all")

\* the queue without its first entry for id
remove_waker(w, id) ==
    IF \E i \in 1..Len(w) : w[i] = id
    THEN LET pos == CHOOSE i \in 1..Len(w) : w[i] = id /\ \A j \in 1..(i - 1) : w[j] # id
         IN  SubSeq(w, 1, pos - 1) \o SubSeq(w, pos + 1, Len(w))
    ELSE w

notify_send_fut_drop(sd, id) ==
    LET found == \E i \in 1..Len(sd.wakers) : sd.wakers[i] = id
        s1 == IF found THEN Side(remove_waker(sd.wakers, id), sd.ids \ {id}, sd.pending)
              ELSE sd
    IN  IF id \in s1.pending
        THEN wake_next_send(Side(s1.wakers, s1.ids, s1.pending \ {id}))
        ELSE WakeOut(s1, {}, "none")

confirm_send_fut_waked(sd, id) == Side(sd.wakers, sd.ids, sd.pending \ {id})

append_send_fut_waker_always(sd, id) ==
    Side(Append(sd.wakers, id), sd.ids \cup {id}, sd.pending)

append_send_fut_waker(sd, id) ==
    IF id \in sd.ids THEN sd
    ELSE Side(Append(sd.wakers, id), sd.ids \cup {id}, sd.pending)

append_send_sync_waker(sd) == Side(Append(sd.wakers, None), sd.ids, sd.pending)

\* the receivers' side is written the same way on the recv_ collections
wake_next_recv(sd) == wake_next_send(sd)

wake_all_recvs(sd) == wake_all_sends(sd)

notify_recv_fut_drop(sd, id) == notify_send_fut_drop(sd, id)

confirm_recv_fut_waked(sd, id) == confirm_send_fut_waked(sd, id)

append_recv_fut_waker(sd, id) == append_send_fut_waker(sd, id)

append_recv_sync_waker(sd) == append_send_sync_waker(sd)

notify_data_sent(sd) == wake_next_recv(sd)

notify_data_received(sd) == wake_next_send(sd)

\* ------------------------------------------------------------ the futures
\* a future: kind is "Send" or "Recv"; st is "-" (not made), "pending"
\* (polled, returned Poll::Pending: its queued flag is set), "done" or
\* "dropped"; woken says that its waker was called since its last poll
NoFut == [kind |-> "-", st |-> "-", woken |-> FALSE]

Fut(kind, st) == [kind |-> kind, st |-> st, woken |-> FALSE]

\* waker.wake() for the futures of W
WokenFut(f, W) ==
    [i \in DOMAIN f |-> IF i \in W /\ f[i].st = "pending"
                        THEN [f[i] EXCEPT !.woken = TRUE] ELSE f[i]]

\* a side that is only updated: no waker called, no condvar notified
Plain(sd) == WakeOut(sd, {}, "none")

Notify(cv, n) ==
    IF n = "one" THEN notify_one(cv) ELSE IF n = "all" THEN notify_all(cv) ELSE cv

NotifyWakes(cv, n) ==
    IF n = "one" THEN notify_one_wakes(cv)
    ELSE IF n = "all" THEN notify_all_wakes(cv) ELSE {}

\* the state a section leaves: the queue q, the senders' side so and the
\* receivers' side ro with their wakes, the futures f and the threads th
Leaves(q, so, ro, f, th) ==
    /\ queue' = q
    /\ send_fut_wakers' = so.s.wakers
    /\ send_fut_waker_ids' = so.s.ids
    /\ send_fut_pending' = so.s.pending
    /\ recv_fut_wakers' = ro.s.wakers
    /\ recv_fut_waker_ids' = ro.s.ids
    /\ recv_fut_pending' = ro.s.pending
    /\ fut' = WokenFut(f, so.wake \cup ro.wake)
    /\ space_available' = Notify(space_available, so.notify)
    /\ data_available' = Notify(data_available, ro.notify)
    /\ thr' = Woken(th, NotifyWakes(space_available, so.notify)
                            \cup NotifyWakes(data_available, ro.notify))

\* thread t parks in call no of op, after the sentinel was appended: the
\* sides sd_s and sd_r, the condvar queues sa and da
Parks(t, op, no, sd_s, sd_r, sa, da) ==
    /\ send_fut_wakers' = sd_s.wakers
    /\ send_fut_waker_ids' = sd_s.ids
    /\ send_fut_pending' = sd_s.pending
    /\ recv_fut_wakers' = sd_r.wakers
    /\ recv_fut_waker_ids' = sd_r.ids
    /\ recv_fut_pending' = sd_r.pending
    /\ space_available' = sa
    /\ data_available' = da
    /\ thr' = Parked(thr, t, op, no)
    /\ UNCHANGED <<queue, fut, done, sent, rcvd>>

\* BaseChannelAsync::new: one sender, one receiver; the threads share them
AsyncInit ==
    /\ capacity \in 1..MaxCap
    /\ queue = <<>>
    /\ senders = 1
    /\ receivers = 1
    /\ data_available = <<>>
    /\ space_available = <<>>
    /\ thr = [t \in Threads |-> Idle]
    /\ op_no = 1
    /\ done = NoCall
    /\ sent = <<>>
    /\ rcvd = <<>>
    /\ send_fut_wakers = <<>>
    /\ send_fut_waker_ids = {}
    /\ send_fut_pending = {}
    /\ recv_fut_wakers = <<>>
    /\ recv_fut_waker_ids = {}
    /\ recv_fut_pending = {}
    /\ fut = [i \in 1..MaxOps |-> NoFut]
    /\ NoDeque
    /\ NoPrimitives

\* Send::poll of future id, whose queued flag is `queued`
Send_poll(id, queued) ==
    LET s0 == IF queued THEN confirm_send_fut_waked(SendSide, id) ELSE SendSide
        r == VecDeque_try_push(queue, id, capacity)
        ready == [fut EXCEPT ![id] = Fut("Send", "done")]
    IN  IF receivers = 0
        THEN /\ Leaves(queue, Plain(s0), Plain(RecvSide), ready, thr)
             /\ done' = Call("-", "Send", id, "ChannelClosed", 0)
             /\ UNCHANGED <<sent, rcvd>>
        ELSE IF (s0.wakers = <<>> \/ queued) /\ r.res # "Full"
        THEN /\ Leaves(r.q, Plain(s0), notify_data_sent(RecvSide), ready, thr)
             /\ done' = Call("-", "Send", id, "Ok", 0)
             /\ sent' = Append(sent, id)
             /\ UNCHANGED rcvd
        ELSE /\ Leaves(queue, Plain(append_send_fut_waker(s0, id)), Plain(RecvSide),
                       [fut EXCEPT ![id] = Fut("Send", "pending")], thr)
             /\ UNCHANGED <<done, sent, rcvd>>

\* Recv::poll of future id, whose queued flag is `queued`
Recv_poll(id, queued) ==
    LET s0 == IF queued THEN confirm_recv_fut_waked(RecvSide, id) ELSE RecvSide
        r == VecDeque_get(queue)
        ready == [fut EXCEPT ![id] = Fut("Recv", "done")]
    IN  IF (s0.wakers = <<>> \/ queued) /\ r.res = "Some"
        THEN /\ Leaves(r.q, notify_data_received(SendSide), Plain(s0), ready, thr)
             /\ done' = Call("-", "Recv", id, "Ok", r.val)
             /\ rcvd' = Append(rcvd, r.val)
             /\ UNCHANGED sent
        ELSE IF (s0.wakers = <<>> \/ queued) /\ senders = 0
        THEN /\ Leaves(queue, Plain(SendSide), Plain(s0), ready, thr)
             /\ done' = Call("-", "Recv", id, "ChannelClosed", 0)
             /\ UNCHANGED <<sent, rcvd>>
        ELSE /\ Leaves(queue, Plain(SendSide), Plain(append_recv_fut_waker(s0, id)),
                       [fut EXCEPT ![id] = Fut("Recv", "pending")], thr)
             /\ UNCHANGED <<done, sent, rcvd>>

\* BaseSenderAsync::try_send, call number no
async_try_send(no) ==
    LET r == VecDeque_try_push(queue, no, capacity)
    IN  IF receivers = 0 \/ r.res = "Full"
        THEN /\ Leaves(queue, Plain(SendSide), Plain(RecvSide), fut, thr)
             /\ done' = Call("-", "try_send", no,
                             IF receivers = 0 THEN "ChannelClosed" ELSE try_send_result(r.res), 0)
             /\ UNCHANGED <<sent, rcvd>>
        ELSE /\ Leaves(r.q, Plain(SendSide), notify_data_sent(RecvSide), fut, thr)
             /\ done' = Call("-", "try_send", no, "Ok", 0)
             /\ sent' = Append(sent, no)
             /\ UNCHANGED rcvd

\* BaseReceiverAsync::try_recv, call number no
async_try_recv(no) ==
    LET r == VecDeque_get(queue)
    IN  IF r.res = "Some"
        THEN /\ Leaves(r.q, notify_data_received(SendSide), Plain(RecvSide), fut, thr)
             /\ done' = Call("-", "try_recv", no, "Ok", r.val)
             /\ rcvd' = Append(rcvd, r.val)
             /\ UNCHANGED sent
        ELSE /\ Leaves(queue, Plain(SendSide), Plain(RecvSide), fut, thr)
             /\ done' = Call("-", "try_recv", no,
                             IF senders = 0 THEN "ChannelClosed" ELSE "ChannelEmpty", 0)
             /\ UNCHANGED <<sent, rcvd>>

\* one turn of the loop of send_blocking or send_blocking_timeout
send_blocking(t, op, no) ==
    LET r == VecDeque_try_push(queue, no, capacity)
    IN  IF receivers = 0
        THEN /\ Leaves(queue, Plain(SendSide), Plain(RecvSide), fut, Returned(thr, t))
             /\ done' = Call(t, op, no, "ChannelClosed", 0)
             /\ UNCHANGED <<sent, rcvd>>
        ELSE IF r.res = "Full"
        THEN Parks(t, op, no, append_send_sync_waker(SendSide), RecvSide,
                   wait(space_available, t), data_available)
        ELSE /\ Leaves(r.q, Plain(SendSide), notify_data_sent(RecvSide), fut, Returned(thr, t))
             /\ done' = Call(t, op, no, "Ok", 0)
             /\ sent' = Append(sent, no)
             /\ UNCHANGED rcvd

\* one turn of the loop of recv_blocking or recv_blocking_timeout
recv_blocking(t, op, no) ==
    LET r == VecDeque_get(queue)
    IN  IF r.res = "Some"
        THEN /\ Leaves(r.q, notify_data_received(SendSide), Plain(RecvSide), fut,
                       Returned(thr, t))
             /\ done' = Call(t, op, no, "Ok", r.val)
             /\ rcvd' = Append(rcvd, r.val)
             /\ UNCHANGED sent
        ELSE IF senders = 0
        THEN /\ Leaves(queue, Plain(SendSide), Plain(RecvSide), fut, Returned(thr, t))
             /\ done' = Call(t, op, no, "ChannelClosed", 0)
             /\ UNCHANGED <<sent, rcvd>>
        ELSE Parks(t, op, no, SendSide, append_recv_sync_waker(RecvSide),
                   space_available, wait(data_available, t))

\* --------------------------------------------------- the async channel's steps
AsyncRest == <<senders, receivers, capacity, dequeVars, primitiveVars>>

\* sender.send(v) is made and awaited: the first poll
SendFut ==
    /\ senders > 0
    /\ op_no <= MaxOps
    /\ op_no' = op_no + 1
    /\ Send_poll(op_no, FALSE)
    /\ UNCHANGED AsyncRest

\* a pending Send future is polled again, woken or not
SendPoll(id) ==
    /\ fut[id].kind = "Send" /\ fut[id].st = "pending"
    /\ Send_poll(id, TRUE)
    /\ UNCHANGED <<op_no, AsyncRest>>

\* PinnedDrop for Send, of a pending future (queued is set)
SendDrop(id) ==
    /\ fut[id].kind = "Send" /\ fut[id].st = "pending"
    /\ Leaves(queue, notify_send_fut_drop(SendSide, id), Plain(RecvSide),
              [fut EXCEPT ![id] = Fut("Send", "dropped")], thr)
    /\ UNCHANGED <<op_no, done, sent, rcvd, AsyncRest>>

RecvFut ==
    /\ receivers > 0
    /\ op_no <= MaxOps
    /\ op_no' = op_no + 1
    /\ Recv_poll(op_no, FALSE)
    /\ UNCHANGED AsyncRest

RecvPoll(id) ==
    /\ fut[id].kind = "Recv" /\ fut[id].st = "pending"
    /\ Recv_poll(id, TRUE)
    /\ UNCHANGED <<op_no, AsyncRest>>

\* Drop for Recv, of a pending future (queued is set)
RecvDrop(id) ==
    /\ fut[id].kind = "Recv" /\ fut[id].st = "pending"
    /\ Leaves(queue, Plain(SendSide), notify_recv_fut_drop(RecvSide, id),
              [fut EXCEPT ![id] = Fut("Recv", "dropped")], thr)
    /\ UNCHANGED <<op_no, done, sent, rcvd, AsyncRest>>

TrySend ==
    /\ senders > 0
    /\ op_no <= MaxOps
    /\ op_no' = op_no + 1
    /\ async_try_send(op_no)
    /\ UNCHANGED AsyncRest

TryRecv ==
    /\ receivers > 0
    /\ op_no <= MaxOps
    /\ op_no' = op_no + 1
    /\ async_try_recv(op_no)
    /\ UNCHANGED AsyncRest

SendBlockingCall(t, op) ==
    /\ t \in SenderThreads /\ op \in {"send_blocking", "send_blocking_timeout"}
    /\ senders > 0
    /\ thr[t].st = "idle"
    /\ op_no <= MaxOps
    /\ op_no' = op_no + 1
    /\ send_blocking(t, op, op_no)
    /\ UNCHANGED AsyncRest

\* a thread released from space_available has the mutex again
SendBlockingResume(t) ==
    /\ t \in SenderThreads
    /\ thr[t].st = "woken"
    /\ send_blocking(t, thr[t].op, thr[t].no)
    /\ UNCHANGED <<op_no, AsyncRest>>

RecvBlockingCall(t, op) ==
    /\ t \in ReceiverThreads /\ op \in {"recv_blocking", "recv_blocking_timeout"}
    /\ receivers > 0
    /\ thr[t].st = "idle"
    /\ op_no <= MaxOps
    /\ op_no' = op_no + 1
    /\ recv_blocking(t, op, op_no)
    /\ UNCHANGED AsyncRest

\* a thread released from data_available has the mutex again
RecvBlockingResume(t) ==
    /\ t \in ReceiverThreads
    /\ thr[t].st = "woken"
    /\ recv_blocking(t, thr[t].op, thr[t].no)
    /\ UNCHANGED <<op_no, AsyncRest>>

\* wait_for(..).timed_out(): the blocking call returns Timeout; its
\* sentinel stays in the waker queue
BlockingTimeout(t) ==
    /\ thr[t].st = "wait"
    /\ thr[t].op \in {"send_blocking_timeout", "recv_blocking_timeout"}
    /\ space_available' = timed_out(space_available, t)
    /\ data_available' = timed_out(data_available, t)
    /\ thr' = Returned(thr, t)
    /\ done' = Call(t, thr[t].op, thr[t].no, "Timeout", 0)
    /\ UNCHANGED <<queue, op_no, sent, rcvd, asyncVars, AsyncRest>>

\* the sender is borrowed by its Send futures and by the threads inside a
\* blocking send: it is dropped when there is none
SenderFree ==
    /\ \A t \in SenderThreads : thr[t].st = "idle"
    /\ \A i \in DOMAIN fut : ~(fut[i].kind = "Send" /\ fut[i].st = "pending")

ReceiverFree ==
    /\ \A t \in ReceiverThreads : thr[t].st = "idle"
    /\ \A i \in DOMAIN fut : ~(fut[i].kind = "Recv" /\ fut[i].st = "pending")

\* Drop for BaseSenderAsync, of the last sender
AsyncDropSender ==
    /\ senders = 1
    /\ SenderFree
    /\ senders' = 0
    /\ Leaves(queue, Plain(SendSide), wake_all_recvs(RecvSide), fut, thr)
    /\ UNCHANGED <<receivers, op_no, done, sent, rcvd, capacity, dequeVars, primitiveVars>>

\* Drop for BaseReceiverAsync, of the last receiver
AsyncDropReceiver ==
    /\ receivers = 1
    /\ ReceiverFree
    /\ receivers' = 0
    /\ Leaves(queue, wake_all_sends(SendSide), Plain(RecvSide), fut, thr)
    /\ UNCHANGED <<senders, op_no, done, sent, rcvd, capacity, dequeVars, primitiveVars>>

AsyncNext ==
    \/ SendFut
    \/ \E id \in 1..MaxOps : SendPoll(id)
    \/ \E id \in 1..MaxOps : SendDrop(id)
    \/ RecvFut
    \/ \E id \in 1..MaxOps : RecvPoll(id)
    \/ \E id \in 1..MaxOps : RecvDrop(id)
    \/ TrySend
    \/ TryRecv
    \/ \E t \in SenderThreads, op \in AsyncSendOps : SendBlockingCall(t, op)
    \/ \E t \in SenderThreads : SendBlockingResume(t)
    \/ \E t \in ReceiverThreads, op \in AsyncRecvOps : RecvBlockingCall(t, op)
    \/ \E t \in ReceiverThreads : RecvBlockingResume(t)
    \/ \E t \in Threads : BlockingTimeout(t)
    \/ AsyncDropSender
    \/ AsyncDropReceiver

AsyncChannel == AsyncInit /\ [][AsyncNext]_vars

\* ----------------------------------------------- async channel vocabulary
\* the futures of a kind that wait: polled, not completed, not dropped
Waiting(kind) == {i \in DOMAIN fut : fut[i].kind = kind /\ fut[i].st = "pending"}

\* a waiter of the side is about to run: a woken future or a released thread
Scheduled(kind, threads) ==
    \/ \E i \in Waiting(kind) : fut[i].woken
    \/ \E t \in threads : thr[t].st = "woken"

\* every waiter of the side was woken: no future waits with its waker
\* uncalled, no thread is parked on the condvar
AllWoken(kind, threads) ==
    /\ \A i \in Waiting(kind) : fut[i].woken
    /\ \A t \in threads : thr[t].st # "wait"

\* the waiters of the side that run in this step: the futures polled and
\* the threads that resume
Polled(kind) == {i \in Waiting(kind) : fut'[i] # fut[i] /\ fut'[i].st # "dropped"}

Resumed(threads) == {t \in threads : thr[t].st = "woken" /\ thr'[t] # thr[t]}

\* call no ends in this step with ChannelClosed
EndsClosed(no) == done' # done /\ done'.no = no /\ done'.res = "ChannelClosed"

\* the waiters of the side that run in this step complete with ChannelClosed
RunsClosed(kind, threads) ==
    /\ \A i \in Polled(kind) : fut'[i].st = "done" /\ EndsClosed(i)
    /\ \A t \in Resumed(threads) : thr'[t].st = "idle" /\ EndsClosed(thr[t].no)

\* C15: when the sender count is 0 every pending Recv future has been woken
\* and no thread is parked in recv_blocking, and with the queue empty each of
\* them completes with ChannelClosed when it runs; when the receiver count
\* is 0 the same holds of the pending Send futures and of the threads in
\* send_blocking.
C15_AllWokenOnClose ==
    /\ [](senders = 0 => AllWoken("Recv", ReceiverThreads))
    /\ [](receivers = 0 => AllWoken("Send", SenderThreads))
    /\ [][(senders = 0 /\ queue = <<>>) => RunsClosed("Recv", ReceiverThreads)]_vars
    /\ [][receivers = 0 => RunsClosed("Send", SenderThreads)]_vars

\* the last sender is gone with the queue empty: two Recv futures and a
\* thread in recv_blocking were waiting and are woken
C15_Witness ==
    /\ senders = 0 /\ queue = <<>>
    /\ \E i, j \in Waiting("Recv") : i # j /\ fut[i].woken /\ fut[j].woken
    /\ \E t \in ReceiverThreads : thr[t].st = "woken" /\ thr[t].op = "recv_blocking"

\* a future of the kind completes with Ok in this step
Completes(kind, i) ==
    done' # done /\ done'.op = kind /\ done'.no = i /\ done'.res = "Ok"

\* C18: Send futures have their values admitted, and Recv futures obtain
\* values, in the order in which they were first polled: a future that
\* completes overtakes no future of its kind that was polled before it and
\* still waits, woken or not. (Ids are given in the order of the first polls.)
C18_FuturesServedInOrder ==
    [][\A i \in 1..MaxOps :
          /\ Completes("Send", i) => \A j \in Waiting("Send") : j >= i
          /\ Completes("Recv", i) => \A j \in Waiting("Recv") : j >= i]_vars

\* a Recv future made after the value was sent took it at its first poll,
\* while an older Recv future, woken for that value, was not polled again yet
C18_Overtaken ==
    /\ done.op = "Recv" /\ done.res = "Ok"
    /\ op_no = done.no + 1
    /\ \E j \in Waiting("Recv") : j < done.got /\ done.got < done.no /\ fut[j].woken

\* C19: try_send returns ChannelFull without pushing whenever the send
\* waker queue is non-empty, and try_recv returns ChannelEmpty without
\* popping whenever the receive waker queue is non-empty (the channel being
\* open, or the call returns ChannelClosed).
C19_TryYieldsToWaiters ==
    [][done' # done =>
          /\ (done'.op = "try_send" /\ receivers > 0 /\ send_fut_wakers # <<>>)
                 => (done'.res = "ChannelFull" /\ queue' = queue)
          /\ (done'.op = "try_recv" /\ senders > 0 /\ recv_fut_wakers # <<>>)
                 => (done'.res = "ChannelEmpty" /\ queue' = queue)]_vars

\* try_recv returned a value while a Recv future was queued in the waker
\* queue and another one, woken for that value, was not polled again yet
C19_Skipped ==
    /\ done.op = "try_recv" /\ done.res = "Ok"
    /\ op_no = done.no + 1
    /\ senders > 0
    /\ recv_fut_wakers # <<>>
    /\ \E j \in Waiting("Recv") : fut[j].woken

\* a slot is free, Send futures wait for one and no sender is about to run
SendStarved ==
    /\ receivers > 0
    /\ Len(queue) < capacity
    /\ Waiting("Send") # {}
    /\ ~Scheduled("Send", SenderThreads)

\* a value is queued, Recv futures wait for one and no receiver is about to run
RecvStarved ==
    /\ queue # <<>>
    /\ Waiting("Recv") # {}
    /\ ~Scheduled("Recv", ReceiverThreads)

\* a pending future of the kind is dropped in this step
Dropping(kind) == \E i \in Waiting(kind) : fut'[i].st = "dropped"

\* C20: the drop of a pending Send (Recv) future loses no wakeup, whether
\* its id was still in the waker queue or it was woken and not polled again:
\* if a waiter was about to run for the free slot (the queued value) before
\* the drop, or none was needed, then after it the remaining futures are
\* not left waiting with the slot free (the value queued) and nobody woken.
C20_DropLosesNoWakeup ==
    [][/\ (Dropping("Send") /\ ~SendStarved) => ~SendStarved'
       /\ (Dropping("Recv") /\ ~RecvStarved) => ~RecvStarved']_vars

\* a Recv future woken for a queued value was dropped after a call of
\* recv_blocking_timeout had returned Timeout, and its wake was passed to
\* nobody: the value is queued, a younger Recv future is still in the waker
\* queue, the pending set and the condvar's queue are empty and no receiver
\* is about to run
C20_Lost ==
    /\ RecvStarved
    /\ senders > 0
    /\ done.op = "recv_blocking_timeout" /\ done.res = "Timeout"
    /\ \E i \in DOMAIN fut :
          /\ fut[i].kind = "Recv" /\ fut[i].st = "dropped"
          /\ i < done.no /\ done.no < Head(queue)
          /\ \E j \in Waiting("Recv") :
                /\ j > Head(queue)
                /\ recv_fut_wakers = <<j>>
    /\ recv_fut_pending = {}
    /\ data_available = <<>>

\* the ids in a waker queue, the sentinels left out
QueuedIds(w) == {w[k] : k \in 1..Len(w)} \ {None}

\* no id occurs twice in a waker queue
NoDuplicate(w) ==
    \A k, l \in 1..Len(w) : (k # l /\ w[k] # None) => w[k] # w[l]

\* the bookkeeping of a side is consistent
Consistent(sd) ==
    /\ NoDuplicate(sd.wakers)
    /\ sd.ids = QueuedIds(sd.wakers)
    /\ QueuedIds(sd.wakers) \cap sd.pending = {}

\* C21: in every reachable state no id occurs more than once in
\* send_fut_wakers (recv_fut_wakers), send_fut_waker_ids (recv_fut_waker_ids)
\* is exactly the set of the ids in that queue, and no id is both in the
\* waker queue and in the pending set.
C21_WakerBookkeeping == Consistent(SendSide) /\ Consistent(RecvSide)

\* Recv future 1 was woken, found no value when it was polled again and is
\* queued again, now behind future 2
C21_Witness ==
    /\ recv_fut_wakers = <<2, 1>>
    /\ recv_fut_waker_ids = {1, 2}
    /\ recv_fut_pending = {}

\* every future made has completed or was dropped, and no thread is inside
\* a blocking call
Quiescent ==
    /\ \A i \in DOMAIN fut : fut[i].st # "pending"
    /\ \A t \in Threads : thr[t].st = "idle"

\* C22: whenever every Send and Recv future has completed or was dropped and
\* no thread is inside a blocking call, the six bookkeeping collections are
\* empty.
C22_NothingLeftBehind ==
    Quiescent =>
        /\ send_fut_wakers = <<>> /\ send_fut_waker_ids = {} /\ send_fut_pending = {}
        /\ recv_fut_wakers = <<>> /\ recv_fut_waker_ids = {} /\ recv_fut_pending = {}

\* only futures were used, each has completed, and the id of a completed
\* Recv future is still in recv_fut_wakers
C22_Leftover ==
    /\ Quiescent
    /\ \A k \in 1..(op_no - 1) : fut[k].st = "done"
    /\ \E i \in QueuedIds(recv_fut_wakers) : fut[i].kind = "Recv"

\* ======================================================================
\* The priority-inheritance mutex and condvar (pi.rs). PiLock is a PI futex
\* word and a blocked flag; lock, try_lock and try_lock_until first try the
\* compare-exchange 0 -> tid in user space and then call the kernel
\* (FUTEX_LOCK_PI, FUTEX_TRYLOCK_PI, FUTEX_LOCK_PI with a timeout); unlock
\* tries tid -> 0 and then calls FUTEX_UNLOCK_PI. The kernel serialises its
\* operations on one futex: each is one step. It blocks a caller of LOCK_PI
\* while the word names an owner, after setting FUTEX_WAITERS in the word,
\* and UNLOCK_PI hands the word to one blocked thread of its choice (the
\* one of highest priority).
\* Every load, store and compare-exchange of the code is SeqCst: each is a
\* step of its own.
\* ======================================================================

\* the threads that use the mutex and the increments each makes under it
PiThreads == {"p1", "p2", "p3"}

MaxLaps == 1

\* gettid()
tid(t) == CASE t = "p1" -> 1 [] t = "p2" -> 2 [] t = "p3" -> 3

\* the futex word: PiFutex::new(0) is free
Word(owner, bit) == [owner |-> owner, waiters |-> bit]

Free == Word(0, FALSE)

cvVars == <<waiters, fx_parked, notifying>>

\* what the mutex leaves alone
NotPi == <<capacity, dequeVars, channelVars, asyncVars, cellVars, semVars, buf, auxVars>>

\* a call of the lock API returned res to thread t
Ret(t, op, res) == [t |-> t, op |-> op, res |-> res]

\* the call a thread is in, by its position
OpOf(p) ==
    CASE p \in {"lock_cas", "lock_pi", "pi_wait"} -> "lock"
      [] p \in {"try_cas", "trylock_pi"} -> "try_lock"
      [] p \in {"until_cas", "lock_pi_until", "pi_wait_until"} -> "try_lock_until"
      [] OTHER -> "-"

\* a call of notify_one or notify_all: the caller, the untimed waiters that
\* had entered wait when it was called, the thread notify_one woke, whether
\* it has returned, and its Backoff: Backoff::new() is n = 50; slept is the
\* length in microseconds of its last sleep, 0 before the first
Notified(by, entered, woke, returned) ==
    [by |-> by, entered |-> entered, woke |-> woke, returned |-> returned,
     n |-> 50, slept |-> 0]

\* variant: the step is added while n is not above the cap
backoff_to_cap(b) ==
    [b EXCEPT !.slept = b.n, !.n = IF b.n <= 200 THEN b.n + 25 ELSE b.n]

\* Backoff::backoff: sleep n microseconds, then n += 25 if n < 200
backoff(b) ==
    [b EXCEPT !.slept = b.n, !.n = IF b.n < 200 THEN b.n + 25 ELSE b.n]

NoNotify == Notified("-", {}, "-", TRUE)

\* Mutex::new(0) shared by the threads
PiInit ==
    /\ futex = Free
    /\ pi_waiters = {}
    /\ blocked = FALSE
    /\ waiters = 0
    /\ fx_parked = {}
    /\ pc = [t \in PiThreads |-> "idle"]
    /\ counter = 0
    /\ tmp = [t \in PiThreads |-> 0]
    /\ laps = [t \in PiThreads |-> 0]
    /\ leaked = ""
    /\ ret = Ret("-", "-", FALSE)
    /\ notifying = NoNotify
    /\ capacity = 1
    /\ NoDeque
    /\ NoChannel
    /\ NoCell
    /\ NoSemaphore
    /\ NoBuffer
    /\ NoAux

\* perform_lock: the load of blocked; a blocked mutex parks the caller
Lock(t) ==
    /\ pc[t] = "idle"
    /\ laps[t] < MaxLaps
    /\ pc' = [pc EXCEPT ![t] = IF blocked THEN "parked" ELSE "lock_cas"]
    /\ UNCHANGED <<futex, pi_waiters, blocked, counter, tmp, laps, leaked, ret, cvVars, NotPi>>

\* perform_try_lock: the load of blocked; a blocked mutex returns false
TryLock(t) ==
    /\ pc[t] = "idle"
    /\ laps[t] < MaxLaps
    /\ IF blocked
       THEN ret' = Ret(t, "try_lock", FALSE) /\ pc' = pc
       ELSE ret' = ret /\ pc' = [pc EXCEPT ![t] = "try_cas"]
    /\ UNCHANGED <<futex, pi_waiters, blocked, counter, tmp, laps, leaked, cvVars, NotPi>>

\* try_lock_until starts with the compare-exchange
TryLockUntil(t) ==
    /\ pc[t] = "idle"
    /\ laps[t] < MaxLaps
    /\ pc' = [pc EXCEPT ![t] = "until_cas"]
    /\ UNCHANGED <<futex, pi_waiters, blocked, counter, tmp, laps, leaked, ret, cvVars, NotPi>>

\* the call a failed compare-exchange goes on with
SlowPath(p) ==
    CASE p = "lock_cas" -> "lock_pi"
      [] p = "try_cas" -> "trylock_pi"
      [] p = "until_cas" -> "lock_pi_until"

\* futex.value.compare_exchange(0, tid)
Cas_always(t) ==
    /\ pc[t] \in {"lock_cas", "try_cas", "until_cas"}
    /\ futex' = Word(tid(t), FALSE)
    /\ pc' = [pc EXCEPT ![t] = "locked"]
    /\ ret' = Ret(t, OpOf(pc[t]), TRUE)
    /\ UNCHANGED <<pi_waiters, blocked, counter, tmp, laps, leaked, cvVars, NotPi>>

Cas(t) ==
    /\ pc[t] \in {"lock_cas", "try_cas", "until_cas"}
    /\ IF futex = Free
       THEN /\ futex' = Word(tid(t), FALSE)
            /\ pc' = [pc EXCEPT ![t] = "locked"]
            /\ ret' = Ret(t, OpOf(pc[t]), TRUE)
       ELSE /\ pc' = [pc EXCEPT ![t] = SlowPath(pc[t])]
            /\ UNCHANGED <<futex, ret>>
    /\ UNCHANGED <<pi_waiters, blocked, counter, tmp, laps, leaked, cvVars, NotPi>>

\* the kernel's FUTEX_LOCK_PI, FUTEX_TRYLOCK_PI and timed FUTEX_LOCK_PI: a
\* free word is taken; a word the caller owns is refused (EDEADLK, which
\* lock_pi_until does not expect); else TRYLOCK fails and LOCK blocks
Kernel(t) ==
    /\ pc[t] \in {"lock_pi", "trylock_pi", "lock_pi_until"}
    /\ IF futex.owner = 0
       THEN /\ futex' = Word(tid(t), futex.waiters)
            /\ pc' = [pc EXCEPT ![t] = "locked"]
            /\ ret' = Ret(t, OpOf(pc[t]), TRUE)
            /\ UNCHANGED pi_waiters
       ELSE IF pc[t] = "trylock_pi"
       THEN /\ pc' = [pc EXCEPT ![t] = "idle"]
            /\ ret' = Ret(t, "try_lock", FALSE)
            /\ UNCHANGED <<futex, pi_waiters>>
       ELSE IF futex.owner = tid(t)
       THEN /\ pc' = [pc EXCEPT ![t] = "panicked"]
            /\ UNCHANGED <<futex, pi_waiters, ret>>
       ELSE /\ futex' = Word(futex.owner, TRUE)
            /\ pi_waiters' = pi_waiters \cup {t}
            /\ pc' = [pc EXCEPT ![t] = IF pc[t] = "lock_pi" THEN "pi_wait"
                                                             ELSE "pi_wait_until"]
            /\ UNCHANGED ret
    /\ UNCHANGED <<blocked, counter, tmp, laps, leaked, cvVars, NotPi>>

\* lock_pi_until: Err(TimedOut), try_lock_until returns false
PiTimeout(t) ==
    /\ pc[t] = "pi_wait_until"
    /\ pi_waiters' = pi_waiters \ {t}
    /\ pc' = [pc EXCEPT ![t] = "idle"]
    /\ ret' = Ret(t, "try_lock_until", FALSE)
    /\ UNCHANGED <<futex, blocked, counter, tmp, laps, leaked, cvVars, NotPi>>

\* the holder reads the protected counter
Read(t) ==
    /\ pc[t] = "locked"
    /\ tmp' = [tmp EXCEPT ![t] = counter]
    /\ pc' = [pc EXCEPT ![t] = "write"]
    /\ UNCHANGED <<futex, pi_waiters, blocked, counter, laps, leaked, ret, cvVars, NotPi>>

\* and writes it back incremented; then its guard is dropped
Write(t) ==
    /\ pc[t] = "write"
    /\ counter' = tmp[t] + 1
    /\ laps' = [laps EXCEPT ![t] = @ + 1]
    /\ pc' = [pc EXCEPT ![t] = "unlock"]
    /\ UNCHANGED <<futex, pi_waiters, blocked, tmp, leaked, ret, cvVars, NotPi>>

\* perform_unlock is called when a guard is dropped ("unlock") and by
\* Condvar::wait and wait_for ("cv_unlock", "cv_unlock_for"), which go on
\* to the futex wait
UnlockSlowPath(p) ==
    CASE p = "unlock" -> "unlock_pi"
      [] p = "cv_unlock" -> "cv_unlock_pi"
      [] p = "cv_unlock_for" -> "cv_unlock_pi_for"

Unlocked(p) ==
    CASE p \in {"unlock", "unlock_pi"} -> "idle"
      [] p \in {"cv_unlock", "cv_unlock_pi"} -> "fx_wait"
      [] p \in {"cv_unlock_for", "cv_unlock_pi_for"} -> "fx_wait_for"

\* perform_unlock: futex.value.compare_exchange(tid, 0)
UnlockCas(t) ==
    /\ pc[t] \in {"unlock", "cv_unlock", "cv_unlock_for"}
    /\ IF futex = Word(tid(t), FALSE)
       THEN futex' = Free /\ pc' = [pc EXCEPT ![t] = Unlocked(pc[t])]
       ELSE futex' = futex /\ pc' = [pc EXCEPT ![t] = UnlockSlowPath(pc[t])]
    /\ UNCHANGED <<pi_waiters, blocked, counter, tmp, laps, leaked, ret, cvVars, NotPi>>

\* the kernel's FUTEX_UNLOCK_PI: the word goes to a blocked thread, which
\* returns from lock_pi, or it is freed
UnlockPi(t) ==
    /\ pc[t] \in {"unlock_pi", "cv_unlock_pi", "cv_unlock_pi_for"}
    /\ IF pi_waiters = {}
       THEN /\ futex' = Free
            /\ pc' = [pc EXCEPT ![t] = Unlocked(pc[t])]
            /\ UNCHANGED <<pi_waiters, ret>>
       ELSE \E w \in pi_waiters :
            /\ futex' = Word(tid(w), pi_waiters # {w})
            /\ pi_waiters' = pi_waiters \ {w}
            /\ pc' = [pc EXCEPT ![t] = Unlocked(pc[t]), ![w] = "locked"]
            /\ ret' = Ret(w, OpOf(pc[w]), TRUE)
    /\ UNCHANGED <<blocked, counter, tmp, laps, leaked, cvVars, NotPi>>

\* block_forever(guard): sets blocked and leaks the guard, so the mutex is
\* never unlocked
block_forever_unlocking(t) ==
    /\ pc[t] = "locked"
    /\ leaked = ""
    /\ blocked' = TRUE
    /\ futex' = Free
    /\ leaked' = t
    /\ pc' = [pc EXCEPT ![t] = "idle"]
    /\ UNCHANGED <<pi_waiters, counter, tmp, laps, ret, cvVars, NotPi>>

block_forever(t) ==
    /\ pc[t] = "locked"
    /\ leaked = ""
    /\ blocked' = TRUE
    /\ leaked' = t
    /\ pc' = [pc EXCEPT ![t] = "idle"]
    /\ UNCHANGED <<futex, pi_waiters, counter, tmp, laps, ret, cvVars, NotPi>>

PiNext ==
    \E t \in PiThreads :
        \/ Lock(t)
        \/ TryLock(t)
        \/ TryLockUntil(t)
        \/ Cas(t)
        \/ Kernel(t)
        \/ PiTimeout(t)
        \/ Read(t)
        \/ Write(t)
        \/ UnlockCas(t)
        \/ UnlockPi(t)
        \/ block_forever(t)

PiMutex == PiInit /\ [][PiNext]_vars

\* -------------------------------------------------------- PI mutex claims
\* thread t holds the mutex: it has a guard, or leaked one
Holds(t) ==
    \/ pc[t] \in {"locked", "write", "unlock", "unlock_pi"}
    \/ pc[t] \in {"cv_enter", "cv_unlock", "cv_unlock_pi", "cv_unlock_for", "cv_unlock_pi_for",
                  "notify", "notify_wake"}
    \/ leaked = t

\* C23: at most one thread holds the PI mutex at any time, for every
\* interleaving of lock, try_lock, try_lock_until and unlock through the
\* fast path and the kernel; so the counter the threads increment under the
\* lock always is the number of increments made, N * k when all are done.
C23_MutualExclusion ==
    /\ Cardinality({t \in PiThreads : Holds(t)}) <= 1
    /\ counter = laps["p1"] + laps["p2"] + laps["p3"]

\* a thread is in its critical section while another one is blocked in the
\* kernel on the mutex, after a third has made its increment and unlocked
C23_Witness ==
    \E w \in PiThreads :
        /\ pc[w] = "write"
        /\ futex = Word(tid(w), TRUE)
        /\ pi_waiters # {}
        /\ \E u \in PiThreads \ {w} : laps[u] > 0 /\ pc[u] = "idle"

\* C24: block_forever latches the mutex: once blocked is set it stays set,
\* no thread acquires the mutex afterwards (no lock, try_lock or
\* try_lock_until returns success) and a thread parked by lock stays parked.
C24_BlockedForever ==
    [][blocked =>
          /\ blocked'
          /\ \A t \in PiThreads :
                /\ Holds(t)' => Holds(t)
                /\ pc[t] = "parked" => pc'[t] = "parked"
          /\ ret' # ret => ~ret'.res]_vars

\* after block_forever one thread is parked in lock, try_lock has returned
\* false and a thread is in the kernel for try_lock_until
C24_Witness ==
    /\ blocked
    /\ \E t \in PiThreads : pc[t] = "parked"
    /\ \E t \in PiThreads : pc[t] = "pi_wait_until"
    /\ ret.op = "try_lock" /\ ~ret.res

\* ------------------------------------------------------------ the condvar
\* Condvar is a waiter counter and a futex word fx that is always 0, so
\* fx.wait(0) always parks. Two threads wait on the condvar, one notifies,
\* each under the PI mutex as in test_condvar_wait_notify_one_loop.
CvWaiters == {"p1", "p2"}

CvNotifiers == {"p3"}

\* the calls a thread makes: a waiter waits MaxLaps times, the notifier
\* notifies once for each wait
Quota(t) == IF t \in CvNotifiers THEN Cardinality(CvWaiters) * MaxLaps ELSE MaxLaps

\* mutex.lock() of a waiter or of the notifier
CvLock(t) ==
    /\ pc[t] = "idle"
    /\ laps[t] < Quota(t)
    /\ pc' = [pc EXCEPT ![t] = IF blocked THEN "parked" ELSE "lock_cas"]
    /\ UNCHANGED <<futex, pi_waiters, blocked, counter, tmp, laps, leaked, ret, cvVars, NotPi>>

\* wait_with_timeout, the unlock! macro: waiters.fetch_add(1); the mutex is
\* locked (by the caller), so perform_unlock follows
Wait(t, timed) ==
    /\ t \in CvWaiters
    /\ pc[t] = "locked"
    /\ tmp[t] = 0
    /\ waiters' = waiters + 1
    /\ pc' = [pc EXCEPT ![t] = IF timed THEN "cv_unlock_for" ELSE "cv_unlock"]
    /\ UNCHANGED <<futex, pi_waiters, blocked, fx_parked, counter, tmp, laps, leaked, ret,
                   notifying, NotPi>>

\* fx.wait(0) and fx.wait_for(0, remaining): the word is 0, the thread parks
FxWait(t) ==
    /\ pc[t] \in {"fx_wait", "fx_wait_for"}
    /\ fx_parked' = fx_parked \cup {t}
    /\ pc' = [pc EXCEPT ![t] = IF pc[t] = "fx_wait" THEN "fx_parked" ELSE "fx_parked_for"]
    /\ UNCHANGED <<futex, pi_waiters, blocked, waiters, counter, tmp, laps, leaked, ret,
                   notifying, NotPi>>

\* the timeout has passed before or during the futex wait
FxTimeout(t) ==
    /\ pc[t] \in {"fx_wait_for", "fx_parked_for"}
    /\ fx_parked' = fx_parked \ {t}
    /\ pc' = [pc EXCEPT ![t] = "cv_sub"]
    /\ UNCHANGED <<futex, pi_waiters, blocked, waiters, counter, tmp, laps, leaked, ret,
                   notifying, NotPi>>

\* Err(Interrupted) => continue: the thread leaves the futex and waits again
FxInterrupted(t) ==
    /\ pc[t] \in {"fx_parked", "fx_parked_for"}
    /\ fx_parked' = fx_parked \ {t}
    /\ pc' = [pc EXCEPT ![t] = IF pc[t] = "fx_parked" THEN "fx_wait" ELSE "fx_wait_for"]
    /\ UNCHANGED <<futex, pi_waiters, blocked, waiters, counter, tmp, laps, leaked, ret,
                   notifying, NotPi>>

\* after the futex wait: waiters.fetch_sub(1), then mutex.perform_lock()
CvSub(t) ==
    /\ pc[t] = "cv_sub"
    /\ waiters' = waiters - 1
    /\ tmp' = [tmp EXCEPT ![t] = 1]
    /\ pc' = [pc EXCEPT ![t] = IF blocked THEN "parked" ELSE "lock_cas"]
    /\ UNCHANGED <<futex, pi_waiters, blocked, fx_parked, counter, laps, leaked, ret,
                   notifying, NotPi>>

\* wait has returned with the mutex locked again: the waiter drops its guard
Release(t) ==
    /\ t \in CvWaiters
    /\ pc[t] = "locked"
    /\ tmp[t] = 1
    /\ tmp' = [tmp EXCEPT ![t] = 0]
    /\ laps' = [laps EXCEPT ![t] = @ + 1]
    /\ pc' = [pc EXCEPT ![t] = "unlock"]
    /\ UNCHANGED <<futex, pi_waiters, blocked, counter, leaked, ret, cvVars, NotPi>>

\* the untimed waiters that have entered wait and were not woken: counted,
\* the mutex released, before or in the futex wait
Entered == {w \in CvWaiters : pc[w] \in {"fx_wait", "fx_parked"}}

\* notify_one is called, under the mutex
NotifyOne(t) ==
    /\ t \in CvNotifiers
    /\ pc[t] = "locked"
    /\ pc' = [pc EXCEPT ![t] = "notify"]
    /\ notifying' = Notified(t, Entered, "-", FALSE)
    /\ UNCHANGED <<futex, pi_waiters, blocked, waiters, fx_parked, counter, tmp, laps, leaked,
                   ret, NotPi>>

\* notify_one returns; the notifier's guard is dropped
Returns(t, woke) ==
    /\ notifying' = [notifying EXCEPT !.woke = woke, !.returned = TRUE]
    /\ laps' = [laps EXCEPT ![t] = @ + 1]

\* the loop condition of notify_one: waiters.load() > 0
NotifyLoad(t) ==
    /\ pc[t] = "notify"
    /\ IF waiters > 0
       THEN pc' = [pc EXCEPT ![t] = "notify_wake"] /\ UNCHANGED <<notifying, laps>>
       ELSE pc' = [pc EXCEPT ![t] = "unlock"] /\ Returns(t, "-")
    /\ UNCHANGED <<futex, pi_waiters, blocked, waiters, fx_parked, counter, tmp, leaked, ret, NotPi>>

\* fx.wake(1) == 0: with no thread parked the loop backs off and goes round
NotifyWake_once(t) ==
    /\ pc[t] = "notify_wake"
    /\ IF fx_parked = {}
       THEN /\ pc' = [pc EXCEPT ![t] = "unlock"]
            /\ Returns(t, "-")
            /\ UNCHANGED fx_parked
       ELSE \E w \in fx_parked :
            /\ fx_parked' = fx_parked \ {w}
            /\ pc' = [pc EXCEPT ![t] = "unlock", ![w] = "cv_sub"]
            /\ Returns(t, w)
    /\ UNCHANGED <<futex, pi_waiters, blocked, waiters, counter, tmp, leaked, ret, NotPi>>

NotifyWake(t) ==
    /\ pc[t] = "notify_wake"
    /\ IF fx_parked = {}
       THEN /\ pc' = [pc EXCEPT ![t] = "notify"]
            /\ notifying' = backoff(notifying)
            /\ UNCHANGED <<fx_parked, laps>>
       ELSE \E w \in fx_parked :
            /\ fx_parked' = fx_parked \ {w}
            /\ pc' = [pc EXCEPT ![t] = "unlock", ![w] = "cv_sub"]
            /\ Returns(t, w)
    /\ UNCHANGED <<futex, pi_waiters, blocked, waiters, counter, tmp, leaked, ret, NotPi>>

CvNext ==
    \E t \in PiThreads :
        \/ CvLock(t)
        \/ Cas(t)
        \/ Kernel(t)
        \/ UnlockCas(t)
        \/ UnlockPi(t)
        \/ \E timed \in BOOLEAN : Wait(t, timed)
        \/ FxWait(t)
        \/ FxTimeout(t)
        \/ FxInterrupted(t)
        \/ CvSub(t)
        \/ Release(t)
        \/ NotifyOne(t)
        \/ NotifyLoad(t)
        \/ NotifyWake(t)

PiCondvar == PiInit /\ [][CvNext]_vars

\* ------------------------------------------- notify_all and fair scheduling
\* notify_all is called, under the mutex
NotifyAll(t) ==
    /\ t \in CvNotifiers
    /\ pc[t] = "locked"
    /\ pc' = [pc EXCEPT ![t] = "notify_all"]
    /\ notifying' = Notified(t, Entered, "-", FALSE)
    /\ UNCHANGED <<futex, pi_waiters, blocked, waiters, fx_parked, counter, tmp, laps, leaked,
                   ret, NotPi>>

\* let to_wake = waiters.load(); if to_wake == 0 { break }
NotifyAllLoad(t) ==
    /\ pc[t] = "notify_all"
    /\ IF waiters = 0
       THEN /\ pc' = [pc EXCEPT ![t] = "unlock"]
            /\ Returns(t, "-")
            /\ UNCHANGED tmp
       ELSE /\ pc' = [pc EXCEPT ![t] = "notify_all_wake"]
            /\ tmp' = [tmp EXCEPT ![t] = waiters]
            /\ UNCHANGED <<notifying, laps>>
    /\ UNCHANGED <<futex, pi_waiters, blocked, waiters, fx_parked, counter, leaked, ret, NotPi>>

\* the sets of threads one fx.wake(n) can release: n of the parked ones, all
\* of them when fewer are parked
Wakes(n) ==
    {W \in SUBSET fx_parked :
        Cardinality(W) = IF n < Cardinality(fx_parked) THEN n ELSE Cardinality(fx_parked)}

\* variant: the loop goes round without reading the waiter counter again
NotifyAllWake_stale(t) ==
    /\ pc[t] = "notify_all_wake"
    /\ \E W \in Wakes(tmp[t]) :
         /\ fx_parked' = fx_parked \ W
         /\ IF Cardinality(W) = tmp[t]
            THEN /\ pc' = [w \in PiThreads |->
                              IF w = t THEN "unlock" ELSE IF w \in W THEN "cv_sub" ELSE pc[w]]
                 /\ Returns(t, "-")
                 /\ tmp' = [tmp EXCEPT ![t] = 0]
            ELSE /\ pc' = [w \in PiThreads |-> IF w \in W THEN "cv_sub" ELSE pc[w]]
                 /\ notifying' = backoff(notifying)
                 /\ UNCHANGED <<tmp, laps>>
    /\ UNCHANGED <<futex, pi_waiters, blocked, waiters, counter, leaked, ret, NotPi>>

\* fx.wake(to_wake) == to_wake: the call returns when the kernel released
\* as many threads as the counter read; else it backs off and goes round
NotifyAllWake(t) ==
    /\ pc[t] = "notify_all_wake"
    /\ \E W \in Wakes(tmp[t]) :
         /\ fx_parked' = fx_parked \ W
         /\ IF Cardinality(W) = tmp[t]
            THEN /\ pc' = [w \in PiThreads |->
                              IF w = t THEN "unlock" ELSE IF w \in W THEN "cv_sub" ELSE pc[w]]
                 /\ Returns(t, "-")
                 /\ tmp' = [tmp EXCEPT ![t] = 0]
            ELSE /\ pc' = [w \in PiThreads |->
                              IF w = t THEN "notify_all" ELSE IF w \in W THEN "cv_sub" ELSE pc[w]]
                 /\ notifying' = backoff(notifying)
                 /\ UNCHANGED <<tmp, laps>>
    /\ UNCHANGED <<futex, pi_waiters, blocked, waiters, counter, leaked, ret, NotPi>>

\* Err(Interrupted) => continue, for the signals that arrive: a finite
\* number, counted in counter, which the condvar leaves alone
Signal(t) ==
    /\ pc[t] \in {"fx_parked", "fx_parked_for"}
    /\ counter < MaxLaps
    /\ counter' = counter + 1
    /\ fx_parked' = fx_parked \ {t}
    /\ pc' = [pc EXCEPT ![t] = IF pc[t] = "fx_parked" THEN "fx_wait" ELSE "fx_wait_for"]
    /\ UNCHANGED <<futex, pi_waiters, blocked, waiters, tmp, laps, leaked, ret,
                   notifying, NotPi>>

\* mutex.lock() in the fair runs: each waiter waits once and the notifier
\* notifies once for each waiter, as in test_condvar_wait_notify_all_loop
FairCvLock(t) ==
    /\ pc[t] = "idle"
    /\ laps[t] < (IF t \in CvNotifiers THEN Cardinality(CvWaiters) ELSE 1)
    /\ pc' = [pc EXCEPT ![t] = IF blocked THEN "parked" ELSE "lock_cas"]
    /\ UNCHANGED <<futex, pi_waiters, blocked, counter, tmp, laps, leaked, ret, cvVars, NotPi>>

\* the steps thread t makes inside a call of the mutex or of the condvar
Run(t) ==
    \/ Cas(t)
    \/ Kernel(t)
    \/ UnlockCas(t)
    \/ UnlockPi(t)
    \/ FxWait(t)
    \/ CvSub(t)
    \/ NotifyLoad(t)
    \/ NotifyWake(t)
    \/ NotifyAllLoad(t)
    \/ NotifyAllWake(t)

FairCvNext ==
    \E t \in PiThreads :
        \/ FairCvLock(t)
        \/ Cas(t)
        \/ Kernel(t)
        \/ UnlockCas(t)
        \/ UnlockPi(t)
        \/ \E timed \in BOOLEAN : Wait(t, timed)
        \/ FxWait(t)
        \/ FxTimeout(t)
        \/ Signal(t)
        \/ CvSub(t)
        \/ Release(t)
        \/ NotifyOne(t)
        \/ NotifyLoad(t)
        \/ NotifyWake(t)
        \/ NotifyAll(t)
        \/ NotifyAllLoad(t)
        \/ NotifyAllWake(t)

\* fair scheduling: a thread that can make a step inside a call makes one
FairPiCondvar ==
    PiInit /\ [][FairCvNext]_vars /\ \A t \in PiThreads : WF_vars(Run(t))

\* notify_one returns in this step
NotifyReturns == ~notifying.returned /\ notifying'.returned

\* C25: the condvar misses no wakeup. A notify_one called when an untimed
\* thread had entered wait (counted, mutex released), parked already or not,
\* has woken a waiter when it returns; and notify_one returns only in a step
\* in which the kernel wake released a thread or the waiter counter read 0.
C25_NoMissedWakeup ==
    /\ []((notifying.returned /\ notifying.entered # {}) => notifying.woke \in CvWaiters)
    /\ [][NotifyReturns => (fx_parked' # fx_parked \/ waiters = 0)]_vars

\* the second notify_one has returned: it was called when a waiter that
\* had entered wait was not parked yet, backed off and then woke it, while
\* the waiter woken by the first call is still counted
C25_Witness ==
    /\ notifying.returned /\ notifying.entered # {}
    /\ notifying.slept > 0 /\ notifying.woke \in notifying.entered
    /\ laps["p3"] = 2
    /\ waiters = 2

\* ======================================================================
\* The cells (cell/datacell.rs, cell/coupler.rs, cell/triplecoupler.rs): a
\* primary value, up to two auxiliary values and a closed flag under one
\* mutex, with the condvar data_available. The three cells have the same
\* code; TripleCoupler is modelled, a Coupler is a TripleCoupler whose third
\* slot is never set and a DataCell one whose auxiliary slots are never set.
\* 0 stands for None; set and replace store the number of their call. The
\* threads r1 and r2 call get, get_timeout and try_get; the calls that do
\* not block are made by any thread.
\* ======================================================================
SetOps == {"set", "replace"}

AuxOps == {"set_second", "replace_second", "set_third", "replace_third"}

GetOps == {"get", "get_timeout", "try_get"}

\* what the cells leave alone
NotCell == <<queue, senders, receivers, space_available, sent, capacity, dequeVars,
             asyncVars, piVars, semVars, buf, auxVars>>

\* TripleCoupler::new, cloned to every thread
CellInit ==
    /\ primary = 0 /\ second = 0 /\ third = 0
    /\ closed = FALSE
    /\ data_available = <<>>
    /\ thr = [t \in Threads |-> IF t \in ReceiverThreads THEN Idle ELSE NoThread]
    /\ op_no = 1
    /\ done = NoCall
    /\ rcvd = <<>>
    /\ queue = <<>> /\ senders = 0 /\ receivers = 0 /\ space_available = <<>> /\ sent = <<>>
    /\ capacity = 1
    /\ NoAsync
    /\ NoDeque
    /\ NoPi
    /\ NoSemaphore
    /\ NoBuffer
    /\ NoAux

\* close(): closed = true; data_available.notify_all()
close ==
    /\ op_no <= MaxOps
    /\ op_no' = op_no + 1
    /\ closed' = TRUE
    /\ data_available' = notify_all(data_available)
    /\ thr' = Woken(thr, notify_all_wakes(data_available))
    /\ done' = Call("-", "close", op_no, "Ok", 0)
    /\ UNCHANGED <<primary, second, third, rcvd, NotCell>>

\* set(data) and replace(data), which returns the old value:
\* primary = Some(data); data_available.notify_one()
set(op) ==
    /\ op \in SetOps
    /\ op_no <= MaxOps
    /\ op_no' = op_no + 1
    /\ primary' = op_no
    /\ data_available' = notify_one(data_available)
    /\ thr' = Woken(thr, notify_one_wakes(data_available))
    /\ done' = Call("-", op, op_no, "Ok", IF op = "replace" THEN primary ELSE 0)
    /\ UNCHANGED <<second, third, closed, rcvd, NotCell>>

\* variant: writing an auxiliary slot notifies one waiter
set_second_notifying(op) ==
    /\ op \in AuxOps
    /\ op_no <= MaxOps
    /\ op_no' = op_no + 1
    /\ IF op \in {"set_second", "replace_second"}
       THEN second' = op_no /\ third' = third
       ELSE third' = op_no /\ second' = second
    /\ data_available' = notify_one(data_available)
    /\ thr' = Woken(thr, notify_one_wakes(data_available))
    /\ done' = Call("-", op, op_no, "Ok", 0)
    /\ UNCHANGED <<primary, closed, rcvd, NotCell>>

\* set_second, replace_second, set_third, replace_third: the slot is
\* written, nobody is notified
set_second(op) ==
    /\ op \in AuxOps
    /\ op_no <= MaxOps
    /\ op_no' = op_no + 1
    /\ IF op \in {"set_second", "replace_second"}
       THEN second' = op_no /\ third' = third
       ELSE third' = op_no /\ second' = second
    /\ done' = Call("-", op, op_no, "Ok",
                    CASE op = "replace_second" -> second
                      [] op = "replace_third" -> third
                      [] OTHER -> 0)
    /\ UNCHANGED <<primary, closed, data_available, thr, rcvd, NotCell>>

\* the value is taken: Ok((primary, second.take(), third.take()))
Taken(t, op, no) ==
    /\ primary' = 0 /\ second' = 0 /\ third' = 0
    /\ thr' = Returned(thr, t)
    /\ done' = Call(t, op, no, "Ok", <<primary, second, third>>)
    /\ rcvd' = Append(rcvd, primary)
    /\ UNCHANGED data_available

\* the call fails with res
Refused(t, op, no, res) ==
    /\ thr' = Returned(thr, t)
    /\ done' = Call(t, op, no, res, 0)
    /\ UNCHANGED <<primary, second, third, data_available, rcvd>>

\* one turn of the loop of get and get_timeout: take the primary or wait
get_loop(t, op, no) ==
    IF primary # 0 THEN Taken(t, op, no)
    ELSE /\ thr' = Parked(thr, t, op, no)
         /\ data_available' = wait(data_available, t)
         /\ UNCHANGED <<primary, second, third, done, rcvd>>

\* variant: get leaves the auxiliary values in place
TripleCoupler_get_keeping_aux(t, op) ==
    /\ t \in ReceiverThreads /\ op \in GetOps
    /\ thr[t].st = "idle"
    /\ op_no <= MaxOps
    /\ op_no' = op_no + 1
    /\ IF closed THEN Refused(t, op, op_no, "ChannelClosed")
       ELSE IF primary = 0 /\ op = "try_get" THEN Refused(t, op, op_no, "ChannelEmpty")
       ELSE IF primary = 0 THEN get_loop(t, op, op_no)
       ELSE /\ primary' = 0
            /\ thr' = Returned(thr, t)
            /\ done' = Call(t, op, op_no, "Ok", <<primary, second, third>>)
            /\ rcvd' = Append(rcvd, primary)
            /\ UNCHANGED <<second, third, data_available>>
    /\ UNCHANGED <<closed, NotCell>>

\* get(), get_timeout(timeout) and try_get() are called: closed is looked
\* at once, before the loop
TripleCoupler_get(t, op) ==
    /\ t \in ReceiverThreads /\ op \in GetOps
    /\ thr[t].st = "idle"
    /\ op_no <= MaxOps
    /\ op_no' = op_no + 1
    /\ IF closed THEN Refused(t, op, op_no, "ChannelClosed")
       ELSE IF op = "try_get" /\ primary = 0 THEN Refused(t, op, op_no, "ChannelEmpty")
       ELSE get_loop(t, op, op_no)
    /\ UNCHANGED <<closed, NotCell>>

\* a thread released from data_available has the mutex again: the next
\* turn of the loop
GetResume(t) ==
    /\ t \in ReceiverThreads
    /\ thr[t].st = "woken"
    /\ get_loop(t, thr[t].op, thr[t].no)
    /\ UNCHANGED <<op_no, closed, NotCell>>

\* wait_for(..).timed_out(): get_timeout returns Timeout
GetTimeout(t) ==
    /\ thr[t].st = "wait"
    /\ thr[t].op = "get_timeout"
    /\ data_available' = timed_out(data_available, t)
    /\ thr' = Returned(thr, t)
    /\ done' = Call(t, "get_timeout", thr[t].no, "Timeout", 0)
    /\ UNCHANGED <<primary, second, third, rcvd, op_no, closed, NotCell>>

CellNext ==
    \/ close
    \/ \E op \in SetOps : set(op)
    \/ \E op \in AuxOps : set_second(op)
    \/ \E t \in ReceiverThreads, op \in GetOps : TripleCoupler_get(t, op)
    \/ \E t \in ReceiverThreads : GetResume(t)
    \/ \E t \in ReceiverThreads : GetTimeout(t)

Cell == CellInit /\ [][CellNext]_vars

\* a get, get_timeout or try_get returns in this step
GetReturns == done' # done /\ done'.op \in GetOps

\* C26: on a closed cell no get, get_timeout or try_get returns a value, and
\* a thread that close() released from get or get_timeout returns
\* ChannelClosed. The code looks at closed only before the loop: the
\* released thread finds no primary and waits again, and a set() after the
\* close hands it a value.
C26_ClosedCellFailsReads ==
    /\ [][(closed /\ GetReturns) => done'.res # "Ok"]_vars
    /\ [][\A t \in ReceiverThreads :
            (closed /\ thr[t].st = "woken" /\ thr'[t] # thr[t])
                => (thr'[t] = Idle /\ done'.t = t /\ done'.res = "ChannelClosed")]_vars

\* a thread waits in get on a closed cell: close() released it and it went
\* back to wait
C26_ParkedAfterClose ==
    /\ closed
    /\ \E t \in ReceiverThreads : thr[t].st = "wait" /\ thr[t].op = "get"

\* the primaries handed out so far hold no value twice
NoPrimaryTwice == \A i, j \in 1..Len(rcvd) : rcvd[i] = rcvd[j] => i = j

\* C27: a get, get_timeout or try_get that succeeds returns the primary and
\* the auxiliary values the cell holds (0, None, for an unset slot) and
\* leaves the three slots empty; no primary is returned by two gets.
C27_GetTakesAll ==
    /\ [](NoPrimaryTwice)
    /\ [][(GetReturns /\ done'.res = "Ok")
            => /\ primary # 0
               /\ done'.got = <<primary, second, third>>
               /\ primary' = 0 /\ second' = 0 /\ third' = 0]_vars

\* two consumers were blocked in get before the first set; one primary went
\* to each of them, the second without auxiliary values
C27_Witness ==
    /\ Len(rcvd) = 2
    /\ done.op = "get" /\ done.res = "Ok"
    /\ done.got[1] = rcvd[2] /\ done.got[2] = 0 /\ done.got[3] = 0
    /\ done.no < rcvd[1]
    /\ primary = 0 /\ second = 0 /\ third = 0

\* a get, get_timeout or try_get takes the primary in this step
GetTakes == GetReturns /\ done'.res = "Ok" /\ done'.got[1] = primary

\* C28: the primary is the value of the last set or replace until a get
\* takes it, and setting it leaves the auxiliary slots alone; writing an
\* auxiliary slot leaves the primary, the waiting threads and the condvar
\* alone; an auxiliary value stays until it is overwritten or a successful
\* get takes it with the primary.
C28_LastSetWins ==
    /\ [][(done' # done /\ done'.op \in SetOps)
            => (primary' = done'.no /\ second' = second /\ third' = third)]_vars
    /\ [][(done' # done /\ done'.op \in AuxOps)
            => (primary' = primary /\ thr' = thr /\ data_available' = data_available)]_vars
    /\ [][primary' # primary
            => ((done' # done /\ done'.op \in SetOps) \/ (GetTakes /\ primary' = 0))]_vars
    /\ [][(second' # second \/ third' # third)
            => ((done' # done /\ done'.op \in AuxOps) \/ GetTakes)]_vars

\* a second value was set, then the primary twice, and the get returned the
\* last primary with the second value
C28_Witness ==
    /\ done.op \in GetOps /\ done.res = "Ok"
    /\ done.got = <<3, 1, 0>>
    /\ ~closed

\* ======================================================================
\* The semaphore (semaphore.rs): the counter permissions under a mutex, the
\* capacity and the condvar cv (sem_cv here). guards holds the live
\* SemaphoreGuards, each named by the number of the call that made it. Any
\* thread may drop a guard: a guard can be moved to another thread.
\* ======================================================================
\* what the semaphore leaves alone
NotSem == <<queue, senders, receivers, data_available, space_available, sent, rcvd,
            dequeVars, asyncVars, piVars, cellVars, buf, auxVars>>

\* Semaphore::new(capacity), shared by every thread
SemInit ==
    /\ capacity \in 1..MaxCap
    /\ permissions = 0
    /\ sem_cv = <<>>
    /\ guards = {}
    /\ thr = [t \in Threads |-> Idle]
    /\ op_no = 1
    /\ done = NoCall
    /\ queue = <<>> /\ senders = 0 /\ receivers = 0 /\ sent = <<>> /\ rcvd = <<>>
    /\ data_available = <<>> /\ space_available = <<>>
    /\ NoAsync
    /\ NoDeque
    /\ NoPi
    /\ NoCell
    /\ NoBuffer
    /\ NoAux

\* available() and used()
available == capacity - permissions

used == permissions

\* *count += 1 and the new guard
Granted(t, op, no) ==
    /\ permissions' = permissions + 1
    /\ guards' = guards \cup {no}
    /\ thr' = Returned(thr, t)
    /\ done' = Call(t, op, no, "Some", no)
    /\ UNCHANGED sem_cv

\* try_acquire(): None if the counter is at the capacity
try_acquire(t) ==
    /\ thr[t].st = "idle"
    /\ op_no <= MaxOps
    /\ op_no' = op_no + 1
    /\ IF permissions = capacity
       THEN /\ thr' = Returned(thr, t)
            /\ done' = Call(t, "try_acquire", op_no, "None", 0)
            /\ UNCHANGED <<permissions, guards, sem_cv>>
       ELSE Granted(t, "try_acquire", op_no)
    /\ UNCHANGED <<capacity, NotSem>>

\* one turn of `while *count == capacity { cv.wait }`, then the grant
acquire_loop(t, no) ==
    IF permissions = capacity
    THEN /\ thr' = Parked(thr, t, "acquire", no)
         /\ sem_cv' = wait(sem_cv, t)
         /\ UNCHANGED <<permissions, guards, done>>
    ELSE Granted(t, "acquire", no)

\* acquire() is called
acquire(t) ==
    /\ thr[t].st = "idle"
    /\ op_no <= MaxOps
    /\ op_no' = op_no + 1
    /\ acquire_loop(t, op_no)
    /\ UNCHANGED <<capacity, NotSem>>

\* variant: a released thread takes the permission without looking at the
\* counter again
AcquireResume_unchecked(t) ==
    /\ thr[t].st = "woken"
    /\ Granted(t, "acquire", thr[t].no)
    /\ UNCHANGED <<op_no, capacity, NotSem>>

\* a thread released from cv has the mutex again: the next turn of the loop
AcquireResume(t) ==
    /\ thr[t].st = "woken"
    /\ acquire_loop(t, thr[t].no)
    /\ UNCHANGED <<op_no, capacity, NotSem>>

\* a guard is dropped: release() does *count -= 1; cv.notify_one()
release(g) ==
    /\ g \in guards
    /\ guards' = guards \ {g}
    /\ permissions' = permissions - 1
    /\ sem_cv' = notify_one(sem_cv)
    /\ thr' = Woken(thr, notify_one_wakes(sem_cv))
    /\ done' = Call("-", "drop", g, "Ok", 0)
    /\ UNCHANGED <<op_no, capacity, NotSem>>

SemNext ==
    \/ \E t \in Threads : try_acquire(t)
    \/ \E t \in Threads : acquire(t)
    \/ \E t \in Threads : AcquireResume(t)
    \/ \E g \in 1..MaxOps : release(g)

Semaphore == SemInit /\ [][SemNext]_vars

\* C29: the counter of used permissions is within 0..capacity, equals the
\* number of live guards, available() + used() is the capacity, and
\* try_acquire returns None exactly when the counter is at the capacity.
C29_CounterWithinCapacity ==
    /\ [](/\ permissions \in 0..capacity
          /\ permissions = Cardinality(guards)
          /\ available >= 0
          /\ available + used = capacity)
    /\ [][(done' # done /\ done'.op = "try_acquire")
            => (done'.res = "None" <=> permissions = capacity)]_vars

\* every permission is taken, the last one by an acquire that had to wait:
\* a guard made by a later call exists, so the acquire returned after that
\* call was made
C29_Witness ==
    /\ permissions = capacity
    /\ done.op = "acquire" /\ done.res = "Some"
    /\ done.no \in guards
    /\ \E g \in guards : g > done.no

\* ======================================================================
\* The data buffer (buf.rs): a VecDeque under a mutex and a capacity. Every
\* method holds the mutex for its whole body, so each call is one step.
\* done.got is the pair of the value offered and what came back.
\* ======================================================================
\* what the buffer leaves alone
NotBuf == <<queue, senders, receivers, data_available, space_available, thr, sent, rcvd,
            dequeVars, asyncVars, piVars, cellVars, semVars, auxVars>>

\* the values pushed
BufValues == 1..MaxPush

\* DataBuffer::bounded(capacity): capacity > 0 is asserted
BufInit ==
    /\ capacity \in 1..MaxCap
    /\ buf = <<>>
    /\ op_no = 1
    /\ done = NoCall
    /\ thr = [t \in Threads |-> NoThread]
    /\ queue = <<>> /\ senders = 0 /\ receivers = 0 /\ sent = <<>> /\ rcvd = <<>>
    /\ data_available = <<>> /\ space_available = <<>>
    /\ NoAsync
    /\ NoDeque
    /\ NoPi
    /\ NoCell
    /\ NoSemaphore
    /\ NoAux

\* try_push(value): Some(value) if the buffer is full, else push_back
DataBuffer_try_push(value) ==
    /\ op_no <= MaxOps
    /\ op_no' = op_no + 1
    /\ IF Len(buf) >= capacity
       THEN /\ done' = Call("-", "try_push", op_no, "Some", <<value, value>>)
            /\ UNCHANGED buf
       ELSE /\ buf' = Append(buf, value)
            /\ done' = Call("-", "try_push", op_no, "None", <<value, 0>>)
    /\ UNCHANGED <<capacity, NotBuf>>

\* the loop of force_push: while buf.len() >= capacity { buf.pop_front() }
RECURSIVE pop_while_full(_)
pop_while_full(b) == IF Len(b) >= capacity THEN pop_while_full(Tail(b)) ELSE b

\* variant: the loop of force_push also runs when one place is left
DataBuffer_force_push_early(value) ==
    /\ op_no <= MaxOps
    /\ op_no' = op_no + 1
    /\ buf' = Append(IF Len(buf) + 1 >= capacity /\ buf # <<>> THEN Tail(buf) ELSE buf, value)
    /\ done' = Call("-", "force_push", op_no,
                    IF Len(buf) + 1 >= capacity /\ buf # <<>> THEN "false" ELSE "true",
                    <<value, 0>>)
    /\ UNCHANGED <<capacity, NotBuf>>

\* force_push(value): res is true unless the loop removed an element
DataBuffer_force_push(value) ==
    /\ op_no <= MaxOps
    /\ op_no' = op_no + 1
    /\ buf' = Append(pop_while_full(buf), value)
    /\ done' = Call("-", "force_push", op_no,
                    IF Len(buf) >= capacity THEN "false" ELSE "true",
                    <<value, Len(buf) - Len(pop_while_full(buf))>>)
    /\ UNCHANGED <<capacity, NotBuf>>

\* take(): the content is handed out, an empty VecDeque is left
DataBuffer_take ==
    /\ op_no <= MaxOps
    /\ op_no' = op_no + 1
    /\ buf' = <<>>
    /\ done' = Call("-", "take", op_no, "Ok", buf)
    /\ UNCHANGED <<capacity, NotBuf>>

BufNext ==
    \/ \E value \in BufValues : DataBuffer_try_push(value)
    \/ \E value \in BufValues : DataBuffer_force_push(value)
    \/ DataBuffer_take

DataBuffer == BufInit /\ [][BufNext]_vars

\* force_push removed the k oldest elements and appended its value
Evicted(k) == buf' = Append(SubSeq(buf, k + 1, Len(buf)), done'.got[1])

\* C30: the length never exceeds the capacity; try_push on a full buffer
\* returns the value and leaves the buffer as it was; force_push puts its
\* value at the back, removes elements only from the front and only when the
\* buffer is full, and returns true exactly when it removed none.
C30_BufferWithinCapacity ==
    /\ [](Len(buf) <= capacity)
    /\ [][(done' # done /\ done'.op = "try_push" /\ Len(buf) >= capacity)
            => (done'.res = "Some" /\ done'.got[2] = done'.got[1] /\ buf' = buf)]_vars
    /\ [][(done' # done /\ done'.op = "force_push")
            => \E k \in 0..Len(buf) :
                  /\ Evicted(k)
                  /\ k > 0 => Len(buf) >= capacity
                  /\ done'.res = "true" <=> k = 0]_vars

\* a force_push on a full buffer of more than one element: the oldest
\* element went, the value is the newest, false was returned
C30_Witness ==
    /\ done.op = "force_push" /\ done.res = "false"
    /\ capacity > 1
    /\ Len(buf) = capacity
    /\ buf[Len(buf)] = done.got[1]
    /\ done.got[2] = 1

\* ======================================================================
\* The policy channel (policy_channel.rs, pchannel.rs): the sync channel of
\* base_channel.rs whose storage is the Deque of pdeque.rs (data, head,
\* ordered). A stored value has the number of the call that sent it as id.
\* Values expire while they are queued. The two handles are not cloned.
\* ======================================================================
\* the values sent: of one kind and one priority, not expired when sent
PolicyValues == {v \in Values : v.kind = "a" /\ v.prio = 1 /\ ~v.exp}

NoOffer == [val |-> NoVal, changed |-> FALSE]

\* PolicyChannel::bounded(capacity): one sender, one receiver
PolicyChannelInit ==
    /\ capacity \in 1..MaxCap
    /\ ordered = FALSE
    /\ data = <<>>
    /\ head = 0
    /\ nextId = 0
    /\ last = [op |-> "new", res |-> "-", adm |-> FALSE, rm |-> 0, val |-> NoVal]
    /\ queue = <<>>
    /\ senders = 1
    /\ receivers = 1
    /\ data_available = <<>>
    /\ space_available = <<>>
    /\ thr = [t \in Threads |-> IF t \in {"s1", "r1"} THEN Idle ELSE NoThread]
    /\ op_no = 1
    /\ done = NoCall
    /\ sent = <<>>
    /\ rcvd = <<>>
    /\ in_call = [t \in Threads |-> NoOffer]
    /\ NoAsync
    /\ NoPi
    /\ NoCell
    /\ NoSemaphore
    /\ NoBuffer
    /\ NoEventMap

\* the call of t, holding v, leaves the storage q; chg tells whether an
\* earlier turn of its loop changed the contents of the queue, and kept
\* whether the call goes on (it waits)
Stores(t, v, q, chg, kept) ==
    /\ data' = q.data
    /\ head' = q.head
    /\ in_call' = [in_call EXCEPT ![t] =
                      IF kept THEN [val |-> v, changed |-> chg \/ q.data # data] ELSE NoOffer]

\* one turn of the loop of send (op = "send") or send_timeout with the Deque
\* as storage, or try_send: the receiver count, then queue.try_push(value)
policy_send(t, op, no, v, chg) ==
    IF receivers = 0
    THEN /\ thr' = Returned(thr, t)
         /\ done' = Call(t, op, no, "ChannelClosed", 0)
         /\ Stores(t, v, Q(data, head), chg, FALSE)
         /\ UNCHANGED <<data_available, space_available, sent, rcvd>>
    ELSE \E r \in {try_push(Q(data, head), v, no, capacity, ordered)} :
             /\ Stores(t, v, r.q, chg, r.res = "Full" /\ op # "try_send")
             /\ IF r.res = "Full" /\ op # "try_send"
                THEN /\ thr' = Parked(thr, t, op, no)
                     /\ space_available' = wait(space_available, t)
                     /\ UNCHANGED <<data_available, done, sent, rcvd>>
                ELSE IF r.res = "Pushed"
                THEN /\ data_available' = notify_one(data_available)
                     /\ thr' = Woken(Returned(thr, t), notify_one_wakes(data_available))
                     /\ done' = Call(t, op, no, "Ok", 0)
                     /\ UNCHANGED <<space_available, sent, rcvd>>
                ELSE /\ thr' = Returned(thr, t)
                     /\ done' = Call(t, op, no, try_send_result(r.res), 0)
                     /\ UNCHANGED <<data_available, space_available, sent, rcvd>>

\* one turn of the loop of recv (op = "recv") or recv_timeout with the Deque
\* as storage, or try_recv: queue.get(), then the sender count
policy_recv(t, op, no, chg) ==
    \E r \in {get(Q(data, head), capacity)} :
        /\ Stores(t, NoVal, r.q, chg, r.res # "Some" /\ senders # 0 /\ op # "try_recv")
        /\ IF r.res = "Some"
           THEN /\ space_available' = notify_one(space_available)
                /\ thr' = Woken(Returned(thr, t), notify_one_wakes(space_available))
                /\ done' = Call(t, op, no, "Ok", r.val.id)
                /\ UNCHANGED <<data_available, sent, rcvd>>
           ELSE IF senders = 0 \/ op = "try_recv"
           THEN /\ thr' = Returned(thr, t)
                /\ done' = Call(t, op, no,
                                IF senders = 0 THEN "ChannelClosed" ELSE "ChannelEmpty", 0)
                /\ UNCHANGED <<data_available, space_available, sent, rcvd>>
           ELSE /\ thr' = Parked(thr, t, op, no)
                /\ data_available' = wait(data_available, t)
                /\ UNCHANGED <<space_available, done, sent, rcvd>>

\* what the calls on the policy channel leave alone
PolicyRest == <<queue, senders, receivers, capacity, ordered, nextId, last, asyncVars,
                piVars, cellVars, semVars, buf, event_map, max_delta>>

\* a thread holding a sender calls send, send_timeout or try_send
PolicySendCall(t, op, v) ==
    /\ t \in SenderThreads /\ op \in SendOps
    /\ thr[t].st = "idle"
    /\ op_no <= MaxOps
    /\ op_no' = op_no + 1
    /\ policy_send(t, op, op_no, v, FALSE)
    /\ UNCHANGED PolicyRest

\* a sender released from space_available has the mutex again
PolicySendResume(t) ==
    /\ t \in SenderThreads
    /\ thr[t].st = "woken"
    /\ policy_send(t, thr[t].op, thr[t].no, in_call[t].val, in_call[t].changed)
    /\ UNCHANGED <<op_no, PolicyRest>>

\* a thread holding a receiver calls recv, recv_timeout or try_recv
PolicyRecvCall(t, op) ==
    /\ t \in ReceiverThreads /\ op \in RecvOps
    /\ thr[t].st = "idle"
    /\ op_no <= MaxOps
    /\ op_no' = op_no + 1
    /\ policy_recv(t, op, op_no, FALSE)
    /\ UNCHANGED PolicyRest

\* a receiver released from data_available has the mutex again
PolicyRecvResume(t) ==
    /\ t \in ReceiverThreads
    /\ thr[t].st = "woken"
    /\ policy_recv(t, thr[t].op, thr[t].no, in_call[t].changed)
    /\ UNCHANGED <<op_no, PolicyRest>>

\* time passes: a queued value's is_expired() turns true
PolicyExpire(i) ==
    /\ i \in 1..Len(data)
    /\ ~data[i].exp
    /\ data' = [data EXCEPT ![i].exp = TRUE]
    /\ UNCHANGED <<head, channelVars, in_call, PolicyRest>>

\* wait_for(..).timed_out(): send_timeout and recv_timeout return Timeout;
\* done.got is 1 if the call changed the contents of the queue
PolicyTimeout(t) ==
    /\ thr[t].st = "wait"
    /\ thr[t].op \in {"send_timeout", "recv_timeout"}
    /\ space_available' = timed_out(space_available, t)
    /\ data_available' = timed_out(data_available, t)
    /\ thr' = Returned(thr, t)
    /\ done' = Call(t, thr[t].op, thr[t].no, "Timeout", IF in_call[t].changed THEN 1 ELSE 0)
    /\ in_call' = [in_call EXCEPT ![t] = NoOffer]
    /\ UNCHANGED <<data, head, op_no, sent, rcvd, PolicyRest>>

PolicyChannelNext ==
    \/ \E t \in SenderThreads, op \in SendOps, v \in PolicyValues : PolicySendCall(t, op, v)
    \/ \E t \in SenderThreads : PolicySendResume(t)
    \/ \E t \in ReceiverThreads, op \in RecvOps : PolicyRecvCall(t, op)
    \/ \E t \in ReceiverThreads : PolicyRecvResume(t)
    \/ \E i \in 1..MaxCap : PolicyExpire(i)
    \/ \E t \in Threads : PolicyTimeout(t)
    \/ \E t \in SenderThreads : DropSender(t)
    \/ \E t \in ReceiverThreads : DropReceiver(t)

PolicyChannel == PolicyChannelInit /\ [][PolicyChannelNext]_vars

\* ======================================================================
\* The event map (event_map.rs): a BTreeMap from keys to values and an
\* optional max_delta. The keys are signed integers of KeyBits bits (i32 in
\* the tests of the source), the deltas are differences of keys in the same
\* type: `a - b` overflows when the difference is no value of the type, and
\* then panics in a build with overflow checks and wraps in one without.
\* ======================================================================
KeyBits == 3

KeyMin == -(2 ^ (KeyBits - 1))

KeyMax == 2 ^ (KeyBits - 1) - 1

Keys == KeyMin..KeyMax

EventValues == {"a", "b"}

Builds == {"debug", "release"}

\* what the event map leaves alone
NotEventMap == <<queue, senders, receivers, data_available, space_available, thr, op_no,
                 sent, rcvd, capacity, dequeVars, asyncVars, piVars, cellVars, semVars, buf,
                 in_call>>

\* EventMap::new()
EventMapInit ==
    /\ event_map = <<>>
    /\ max_delta = <<>>
    /\ done = NoCall
    /\ capacity = 1
    /\ op_no = 1
    /\ thr = [t \in Threads |-> NoThread]
    /\ queue = <<>> /\ senders = 0 /\ receivers = 0 /\ sent = <<>> /\ rcvd = <<>>
    /\ data_available = <<>> /\ space_available = <<>>
    /\ NoAsync
    /\ NoDeque
    /\ NoPi
    /\ NoCell
    /\ NoSemaphore
    /\ NoBuffer
    /\ in_call = <<>>

\* the key type's `a - b`: on overflow a panic or the wrapped difference
Sub(a, b, build) ==
    IF a - b \in Keys THEN [panic |-> FALSE, v |-> a - b]
    ELSE IF build = "debug" THEN [panic |-> TRUE, v |-> 0]
    ELSE [panic |-> FALSE, v |-> ((a - b - KeyMin) % (2 ^ KeyBits)) + KeyMin]

\* data.range(..=key).next_back() and data.range(key..).next(): the sets
\* of the keys not above and not below key, and their last and first key
NotAbove(key) == {k \in DOMAIN event_map : k <= key}

NotBelow(key) == {k \in DOMAIN event_map : k >= key}

Last(S) == CHOOSE k \in S : \A j \in S : j <= k

First(S) == CHOOSE k \in S : \A j \in S : k <= j

NoEvent == [res |-> "None", key |-> 0, value |-> "-", delta |-> 0]

Panicked == [res |-> "panic", key |-> 0, value |-> "-", delta |-> 0]

\* Some(EventKey { key, delta }), completed with the value as lines 145-151 do
EventKey(key, delta) ==
    IF delta.panic THEN Panicked
    ELSE [res |-> "Some", key |-> key, value |-> event_map[key], delta |-> delta.v]

\* the match on (lower, upper): lower_diff is computed before upper_diff
closest(key, build) ==
    CASE NotAbove(key) # {} /\ NotBelow(key) # {} ->
            LET l == Last(NotAbove(key))
                u == First(NotBelow(key))
                lower_diff == Sub(key, l, build)
                upper_diff == Sub(u, key, build)
            IN  IF lower_diff.panic \/ upper_diff.panic THEN Panicked
                ELSE IF lower_diff.v <= upper_diff.v THEN EventKey(l, lower_diff)
                ELSE EventKey(u, upper_diff)
      [] NotAbove(key) # {} /\ NotBelow(key) = {} ->
            EventKey(Last(NotAbove(key)), Sub(key, Last(NotAbove(key)), build))
      [] NotAbove(key) = {} /\ NotBelow(key) # {} ->
            EventKey(First(NotBelow(key)), Sub(First(NotBelow(key)), key, build))
      [] OTHER -> NoEvent

\* get_closest_to(key): the closest key, None if its delta is above max_delta
get_closest_to(key, build) ==
    LET c == closest(key, build)
    IN  IF max_delta # <<>> /\ c.res = "Some" /\ c.delta > max_delta[1] THEN NoEvent ELSE c

\* insert(key, value)
insert(key, value) ==
    /\ key \in DOMAIN event_map \/ Cardinality(DOMAIN event_map) < MaxCap
    /\ event_map' = [k \in DOMAIN event_map \cup {key} |->
                        IF k = key THEN value ELSE event_map[k]]
    /\ done' = Call("-", "insert", 0, "Ok", <<>>)
    /\ UNCHANGED <<max_delta, NotEventMap>>

\* with_max_delta(max_delta)
with_max_delta(d) ==
    /\ max_delta' = <<d>>
    /\ done' = Call("-", "with_max_delta", 0, "Ok", <<>>)
    /\ UNCHANGED <<event_map, NotEventMap>>

\* a call of get_closest_to(key) returns, or panics
GetClosestTo(key, build) ==
    /\ done' = Call("-", "get_closest_to", 0, get_closest_to(key, build).res,
                    <<key, get_closest_to(key, build)>>)
    /\ UNCHANGED <<event_map, max_delta, NotEventMap>>

\* cleanup(key): data = data.split_off(&key), the entries from key on
cleanup(key) ==
    /\ event_map' = [k \in NotBelow(key) |-> event_map[k]]
    /\ done' = Call("-", "cleanup", 0, "Ok", <<>>)
    /\ UNCHANGED <<max_delta, NotEventMap>>

\* clear_all()
clear_all ==
    /\ event_map' = <<>>
    /\ done' = Call("-", "clear_all", 0, "Ok", <<>>)
    /\ UNCHANGED <<max_delta, NotEventMap>>

EventMapNext ==
    \/ \E key \in Keys, value \in EventValues : insert(key, value)
    \/ \E d \in 0..MaxCap : with_max_delta(d)
    \/ \E key \in Keys, build \in Builds : GetClosestTo(key, build)
    \/ \E key \in Keys : cleanup(key)
    \/ clear_all

EventMap == EventMapInit /\ [][EventMapNext]_vars

\* the distance of a stored key x to k
Distance(x, k) == IF x >= k THEN x - k ELSE k - x

\* the stored key nearest to k, the lower one of two equally near
Nearest(k) ==
    CHOOSE x \in DOMAIN event_map :
        \A y \in DOMAIN event_map :
            \/ Distance(x, k) < Distance(y, k)
            \/ Distance(x, k) = Distance(y, k) /\ x <= y

\* what get_closest_to(k) is said to return
Expected(k) ==
    IF DOMAIN event_map = {} THEN NoEvent
    ELSE IF max_delta # <<>> /\ Distance(Nearest(k), k) > max_delta[1] THEN NoEvent
    ELSE [res |-> "Some", key |-> Nearest(k), value |-> event_map[Nearest(k)],
          delta |-> Distance(Nearest(k), k)]

\* C31: get_closest_to(k) returns the entry whose key is nearest to k with
\* its distance, the lower key on a tie, and None on an empty map or when
\* the distance is above max_delta. With keys further apart than the key
\* type can express the subtraction overflows: the call panics, or returns
\* a wrapped, negative delta and the farther key.
C31_ClosestEntry ==
    [][(done' # done /\ done'.op = "get_closest_to")
         => done'.got[2] = Expected(done'.got[1])]_vars

\* get_closest_to returned an entry with a negative delta although a
\* nearer key is stored
C31_WrappedDelta ==
    /\ done.op = "get_closest_to" /\ done.res = "Some"
    /\ done.got[2].delta < 0
    /\ done.got[2].key # Nearest(done.got[1])

\* C32: a send_timeout or recv_timeout call that returns Timeout has not
\* changed the contents of the queue. On a policy channel the queue.get()
\* of recv_timeout pops the expired values it finds before it waits.
C32_TimeoutChangesNothing ==
    [][(done' # done /\ done'.res = "Timeout") => ~in_call[done'.t].changed]_vars

\* a recv_timeout call has returned Timeout after it removed a value
C32_RemovedBeforeTimeout ==
    /\ done.op = "recv_timeout" /\ done.res = "Timeout"
    /\ done.got = 1

\* future id is queued in w behind an earlier waiter
QueuedBehind(w, id) == \E i \in 2..Len(w) : w[i] = id

\* C33: a Send future that is queued behind earlier waiters and was not
\* taken from the queue by a wake does not push when it is polled, and a
\* Recv future in that position does not pop. The polls test
\* `wakers.is_empty() || self.queued`, and queued is true for every future
\* that has been queued, woken or not.
C33_QueuedFutureDoesNotPush ==
    /\ [][(done' # done /\ done'.op = "Send" /\ done'.res = "Ok")
            => ~QueuedBehind(send_fut_wakers, done'.no)]_vars
    /\ [][(done' # done /\ done'.op = "Recv" /\ done'.res = "Ok")
            => ~QueuedBehind(recv_fut_wakers, done'.no)]_vars

\* a Recv future has popped a value while its id was queued behind an
\* earlier waiter, where it still is
C33_PoppedFromQueue ==
    /\ done.op = "Recv" /\ done.res = "Ok"
    /\ QueuedBehind(recv_fut_wakers, done.no)
    /\ done.no \notin recv_fut_pending

\* a sender waits in send() although the queue has free space, while a
\* receiver waits in recv()
BothBlocked ==
    /\ Len(data) < capacity
    /\ \E t \in SenderThreads : thr[t].st = "wait" /\ thr[t].op = "send"
    /\ \E t \in ReceiverThreads : thr[t].st = "wait" /\ thr[t].op = "recv"

\* a recv, recv_timeout or try_recv call takes a turn of its loop
RecvStep ==
    \E t \in ReceiverThreads :
        /\ thr[t].st \in {"idle", "woken"}
        /\ thr'[t].st = "wait" \/ (done' # done /\ done'.t = t)

\* C34: on a policy channel a recv call that removes elements from the queue
\* while a sender waits on space_available releases a sender, so a sender
\* never waits in send() on a queue with free space while the receiver waits
\* in recv(). A recv whose queue.get() pops only expired values gets None
\* and waits without notifying space_available.
C34_RemovalWakesSender ==
    /\ [](~BothBlocked)
    /\ [][(RecvStep /\ Len(data') < Len(data) /\ space_available # <<>>)
            => space_available' # space_available]_vars

\* the queue was emptied of expired values by a recv that waits now, and
\* the sender that found it full still waits
C34_SenderLeftBlocked ==
    /\ BothBlocked
    /\ data = <<>>
    /\ in_call["r1"].changed

\* the number of None sentinels in the waker queue w
Sentinels(w) == Cardinality({i \in 1..Len(w) : w[i] = None})

\* the threads parked in one of the calls ops
ParkedIn(ops) == {t \in Threads : thr[t].st = "wait" /\ thr[t].op \in ops}

\* C35: every None sentinel in send_fut_wakers (recv_fut_wakers) stands for
\* one thread parked in send_blocking or send_blocking_timeout (recv_blocking
\* or recv_blocking_timeout), and a step that takes a sentinel out of the
\* queue releases a parked thread. A blocking call that returns Timeout
\* leaves its sentinel in the queue.
C35_SentinelsArePresent ==
    /\ [](/\ Sentinels(send_fut_wakers)
                = Cardinality(ParkedIn({"send_blocking", "send_blocking_timeout"}))
          /\ Sentinels(recv_fut_wakers)
                = Cardinality(ParkedIn({"recv_blocking", "recv_blocking_timeout"})))
    /\ [][(\/ Sentinels(send_fut_wakers') < Sentinels(send_fut_wakers)
           \/ Sentinels(recv_fut_wakers') < Sentinels(recv_fut_wakers))
            => \E t \in Threads : thr[t].st = "wait" /\ thr'[t].st = "woken"]_vars

\* a recv_blocking_timeout has returned Timeout and no thread is parked in
\* a blocking receive, but a sentinel is in recv_fut_wakers
C35_StaleSentinel ==
    /\ done.op = "recv_blocking_timeout" /\ done.res = "Timeout"
    /\ ParkedIn({"recv_blocking", "recv_blocking_timeout"}) = {}
    /\ Sentinels(recv_fut_wakers) > 0

\* ------------------------------- the async policy channel (policy_channel_async.rs)
\* BaseChannelAsync with the Deque as storage. The queued values are of the
\* class Always and do not expire, so the Deque queues them as the VecDeque
\* does; the senders also offer a value of the class Optional to a full queue.
AlwaysValue == [dp |-> "Always", kind |-> "a", prio |-> 1, exp |-> FALSE]

OptionalValue == [dp |-> "Optional", kind |-> "a", prio |-> 1, exp |-> FALSE]

\* the Deque holding the queue
AsDeque(q) == Q([i \in 1..Len(q) |-> Stored(AlwaysValue, q[i])], 0)

\* whether the call notifies the receivers after its loop: send_blocking in
\* the arm Pushed only, send_blocking_timeout before it looks at the result
notifies_data_sent(op, res) == op = "send_blocking_timeout" \/ res = "Pushed"

\* send_blocking or send_blocking_timeout of an Optional value that finds
\* the queue full: try_push does not return Full, the loop ends at once
SendBlockingOptional(t, op) ==
    /\ t \in SenderThreads /\ op \in {"send_blocking", "send_blocking_timeout"}
    /\ senders > 0
    /\ thr[t].st = "idle"
    /\ op_no <= MaxOps
    /\ op_no' = op_no + 1
    /\ Len(queue) = capacity
    /\ LET r == try_push(AsDeque(queue), OptionalValue, op_no, capacity, FALSE)
       IN  IF receivers = 0
           THEN /\ Leaves(queue, Plain(SendSide), Plain(RecvSide), fut, Returned(thr, t))
                /\ done' = Call(t, op, op_no, "ChannelClosed", 0)
           ELSE /\ Leaves(queue, Plain(SendSide),
                          IF notifies_data_sent(op, r.res)
                          THEN notify_data_sent(RecvSide) ELSE Plain(RecvSide),
                          fut, Returned(thr, t))
                /\ done' = Call(t, op, op_no, try_send_result(r.res), 0)
    /\ UNCHANGED <<sent, rcvd, AsyncRest>>

PolicyAsyncNext ==
    \/ AsyncNext
    \/ \E t \in SenderThreads, op \in AsyncSendOps : SendBlockingOptional(t, op)

PolicyAsyncChannel == AsyncInit /\ [][PolicyAsyncNext]_vars

\* the receiver waiters released in this step: the parked threads that are
\* woken and the Recv futures whose waker is called
ReceiversReleased ==
    Cardinality({t \in ReceiverThreads : thr[t].st = "wait" /\ thr'[t].st = "woken"})
        + Cardinality({i \in Waiting("Recv") : ~fut[i].woken /\ fut'[i].woken})

\* C36: a send call of the async channel that returns ChannelSkipped,
\* ChannelFull, ChannelClosed or Timeout releases no receiver waiter and
\* removes no entry from recv_fut_wakers, and a send call that returns Ok
\* releases at most one. send_blocking_timeout notifies the receivers before
\* it looks at the result of try_push, so also when the value was skipped.
C36_FailedSendReleasesNobody ==
    [][(done' # done /\ done'.op \in AsyncSendOps)
         => IF done'.res = "Ok" THEN ReceiversReleased <= 1
            ELSE ReceiversReleased = 0 /\ recv_fut_wakers' = recv_fut_wakers]_vars

\* send_blocking_timeout has returned ChannelSkipped and more Recv futures
\* are woken than values were sent
C36_SkippedSendWoke ==
    /\ done.op = "send_blocking_timeout" /\ done.res = "ChannelSkipped"
    /\ Cardinality({i \in Waiting("Recv") : fut[i].woken}) > Len(sent)

\* C37: notify_one and notify_all terminate under fair scheduling, whatever
\* the waiters are doing: a call that has not returned returns. notify_all
\* returns only in a step that read the waiter counter as 0 or in which one
\* wake released as many threads as the counter value it had read.
C37_NotifyTerminates ==
    /\ (~notifying.returned) ~> notifying.returned
    /\ [][(NotifyReturns /\ pc[notifying.by] \in {"notify_all", "notify_all_wake"})
            => \/ pc[notifying.by] = "notify_all" /\ waiters = 0
               \/ /\ pc[notifying.by] = "notify_all_wake"
                  /\ Cardinality(fx_parked \ fx_parked') = tmp[notifying.by]]_vars

\* notify_all has backed off and is about to wake again while one waiter is
\* parked and the other, counted too, was woken and is not deregistered
C37_Witness ==
    /\ ~notifying.returned /\ notifying.slept > 0
    /\ pc[notifying.by] = "notify_all_wake"
    /\ tmp[notifying.by] = 2
    /\ \E w \in CvWaiters : pc[w] = "cv_sub"
    /\ \E w \in CvWaiters : w \in fx_parked

\* the notify call goes round its loop in this step: it sleeps
Sleeps ==
    /\ ~notifying.returned
    /\ pc[notifying.by] \in {"notify_wake", "notify_all_wake"}
    /\ pc'[notifying.by] \in {"notify", "notify_all"}

\* C38: within one notify call the sleeps of the backoff are 50, 75, 100,
\* ..., 200, 200, ... microseconds: the first is 50, each later one is 25
\* longer than the one before until 200 is reached, none is above 200.
C38_BackoffSleeps ==
    /\ [](notifying.slept <= 200)
    /\ [][IF Sleeps
          THEN notifying'.slept =
                  IF notifying.slept = 0 THEN 50
                  ELSE IF notifying.slept + 25 < 200 THEN notifying.slept + 25 ELSE 200
          ELSE notifying'.slept \in {notifying.slept, 0}]_vars

\* a notify call that is in its loop has slept for 200 microseconds
C38_Witness ==
    /\ ~notifying.returned
    /\ notifying.slept = 200 /\ notifying.n = 200

\* C39: whenever try_push returns Full the deque is exactly what it was
\* before the call: neither the Single removal nor the eviction scan removed
\* an element and the value was not stored, so it is handed back.
C39_FullLeavesDeque ==
    /\ Callable =>
         \A v \in Offered :
             \A r \in {Outcome(v)} :
                 r.res = "Full" => (r.q = Q(data, head) /\ ~r.adm)
    /\ (last.op = "try_push" /\ last.res = "Full") => (last.rm = 0 /\ ~last.adm)

\* a push has returned Full: the deque is full and holds nothing the
\* eviction scan of an Always value takes
C39_Witness ==
    /\ last.op = "try_push" /\ last.res = "Full"
    /\ Len(data) = capacity
    /\ \A i \in 1..Len(data) : ~data[i].exp /\ ~is_delivery_policy_optional(data[i])

\* ======================================================================
\* DeliveryPolicy as text (ddp.rs): Display and FromStr. A text is the
\* sequence of its characters. The texts parsed are the five texts Display
\* writes with any of their first MaxOps letters in upper case, and the
\* beginnings of these texts.
\* ======================================================================
\* char::to_lowercase on the letters of the class names
Lower(c) ==
    CASE c = "A" -> "a" []
         c = "E" -> "e" []
         c = "G" -> "g" []
         c = "I" -> "i" []
         c = "L" -> "l" []
         c = "N" -> "n" []
         c = "O" -> "o" []
         c = "P" -> "p" []
         c = "S" -> "s" []
         c = "T" -> "t" []
         c = "W" -> "w" []
         c = "Y" -> "y" []
         OTHER -> c

Upper(c) ==
    CASE c = "a" -> "A" []
         c = "e" -> "E" []
         c = "g" -> "G" []
         c = "i" -> "I" []
         c = "l" -> "L" []
         c = "n" -> "N" []
         c = "o" -> "O" []
         c = "p" -> "P" []
         c = "s" -> "S" []
         c = "t" -> "T" []
         c = "w" -> "W" []
         c = "y" -> "Y" []
         OTHER -> c

\* str::to_lowercase
to_lowercase(s) == [i \in 1..Len(s) |-> Lower(s[i])]

\* impl fmt::Display for DeliveryPolicy
fmt(dp) ==
    CASE dp = "Always" -> <<"a", "l", "w", "a", "y", "s">>
      [] dp = "Latest" -> <<"l", "a", "t", "e", "s", "t">>
      [] dp = "Optional" -> <<"o", "p", "t", "i", "o", "n", "a", "l">>
      [] dp = "Single" -> <<"s", "i", "n", "g", "l", "e">>
      [] dp = "SingleOptional" -> <<"s", "i", "n", "g", "l", "e", "-", "o", "p", "t", "i", "o", "n", "a", "l">>

Parsed(res, dp) == [res |-> res, dp |-> dp]

\* impl FromStr for DeliveryPolicy: the match on s.to_lowercase()
from_str(s) ==
    LET l == to_lowercase(s)
    IN  CASE l = <<"a", "l", "w", "a", "y", "s">> -> Parsed("Ok", "Always")
          [] l = <<"o", "p", "t", "i", "o", "n", "a", "l">> -> Parsed("Ok", "Optional")
          [] l = <<"s", "i", "n", "g", "l", "e">> -> Parsed("Ok", "Single")
          [] l = <<"s", "i", "n", "g", "l", "e", "-", "o", "p", "t", "i", "o", "n", "a", "l">> -> Parsed("Ok", "SingleOptional")
          [] OTHER -> Parsed("InvalidData", "-")

\* s with the letters at the positions U in upper case
Cased(s, U) == [i \in 1..Len(s) |-> IF i \in U THEN Upper(s[i]) ELSE s[i]]

Texts ==
    UNION {{Cased(fmt(dp), U) : U \in SUBSET (1..MaxOps)}
             \cup {SubSeq(fmt(dp), 1, n) : n \in 0..Len(fmt(dp))} : dp \in DeliveryPolicy}

\* no conversion was made
DeliveryPolicyInit == EventMapInit

\* s.parse::<DeliveryPolicy>()
FromStr(s) ==
    /\ done' = Call("-", "from_str", 0, from_str(s).res, <<s, from_str(s).dp>>)
    /\ UNCHANGED <<event_map, max_delta, NotEventMap>>

\* dp.to_string().parse::<DeliveryPolicy>()
RoundTrip(dp) ==
    /\ done' = Call("-", "to_string", 0, from_str(fmt(dp)).res, <<dp, from_str(fmt(dp)).dp>>)
    /\ UNCHANGED <<event_map, max_delta, NotEventMap>>

DeliveryPolicyNext ==
    \/ \E s \in Texts : FromStr(s)
    \/ \E dp \in DeliveryPolicy : RoundTrip(dp)

DeliveryPolicyText == DeliveryPolicyInit /\ [][DeliveryPolicyNext]_vars

\* the text names a delivery class: it is what Display writes for one, in
\* any case of its letters
NamesClass(s) == \E dp \in DeliveryPolicy : to_lowercase(s) = fmt(dp)

\* C40: the text Display writes for a class parses to that class, for each
\* of the five classes, and only a text that names no class is InvalidData.
\* FromStr has no arm for "latest".
C40_RoundTrip ==
    /\ done.op = "to_string" => (done.res = "Ok" /\ done.got[2] = done.got[1])
    /\ (done.op = "from_str" /\ done.res = "InvalidData") => ~NamesClass(done.got[1])

\* the text written for Latest was parsed and is InvalidData
C40_LatestIsInvalid ==
    /\ done.op = "to_string"
    /\ done.got[1] = "Latest"
    /\ done.res = "InvalidData"

====
